---- MODULE Spec2Model ----
(***************************************************************************)
(* A model of rzen: deployment of a compiled binary to a remote host over  *)
(* an SSH session (src/commands/deploy.rs, src/utils.rs).                   *)
(*                                                                         *)
(* The remote host is a small file system (path -> bytes) and one service  *)
(* whose state systemctl reports.  Every remote command is one step; the   *)
(* environment decides, per step, whether the command can be carried out   *)
(* at all (channel errors, sudo refusals) -- what the code sees as `Err`.  *)
(***************************************************************************)
EXTENDS Integers, Sequences, FiniteSets, TLC

\* ------------------------------------------------------------------ bounds

\* The largest max_retries connect_with_retry is called with in SpecConnect.
MaxAttempts == 5

\* The background tasks the interface starts in one session.
MaxTasks == 2

\* The messages the background tasks send in one session, all together.
MaxMessages == 9

\* The keys the input-reading task handles in one session.
MaxKeys == 3

\* The last value of start_build_operation_async's progress loop (the code
\* counts to 100).
MaxBuildPercent == 1

\* The updates one monitor task sends (the code's loop has no end).
MaxUpdates == 1

\* The longest name or host supplied to `init`.
MaxNameLen == 2

\* The most fields an `ls -lh` output is given.
MaxFields == 9

\* ------------------------------------------------------- program constants

\* execute_deployment, rollback_deployment: connect_with_retry(&ssh_config, 3)
DeployRetries == 3

\* run_app: mpsc::channel(100)
ChannelCapacity == 100

\* ------------------------------------------------------------- the values

None == "none"
Absent == "absent"

\* Bytes a binary file can hold: what was installed before the tool was
\* first used (OLD0, OLD1) and what cargo builds locally (B1, B2).
LocalBinaries == {"B1", "B2"}
RemoteBinaries == {"OLD0", "OLD1"} \cup LocalBinaries
UnitText == "unit"

\* The local binary file under target/<mode>/: missing, of size 0, or built.
LocalStates == {"missing", "empty"} \cup LocalBinaries

\* Remote paths the program names.  BinaryPath is the local path of the
\* binary, which upload_file also hands to the remote side (see Upload).
RemoteBinaryPath == "deploy_path/name"
BackupBinaryPath == "deploy_path/name.backup"
TempServicePath == "/tmp/name.service"
ServiceFile == "/etc/systemd/system/name.service"
BinaryPath == "project/target/release/name"
RemotePaths ==
  {RemoteBinaryPath, BackupBinaryPath, TempServicePath, ServiceFile, BinaryPath}

\* What systemd can say about the unit ("unknown": the unit is not loaded and
\* the query prints nothing).
ServiceStates == {"active", "inactive", "failed", "unknown"}

WhiteSpace == {" ", "\n"}

\* ------------------------------------------------------- pure functions

RECURSIVE Pow2(_)
Pow2(n) == IF n <= 0 THEN 1 ELSE 2 * Pow2(n - 1)

\* str::trim_start / trim_end on an output given as a sequence of tokens.
RECURSIVE TrimStart(_)
TrimStart(s) ==
  IF s # <<>> /\ Head(s) \in WhiteSpace THEN TrimStart(Tail(s)) ELSE s

RECURSIVE TrimEnd(_)
TrimEnd(s) ==
  IF s # <<>> /\ s[Len(s)] \in WhiteSpace
    THEN TrimEnd(SubSeq(s, 1, Len(s) - 1))
    ELSE s

Trim(s) == TrimEnd(TrimStart(s))

\* Error values (anyhow errors, told apart by what raised them): the kind,
\* the command or step that raised it, and a number (the exit status of a
\* command, the attempt of a connection error).
Error(kind, cmd, at) == [kind |-> kind, cmd |-> cmd, at |-> at]
NoError == Error("none", "", 0)

\* execute_command: Ok((stdout, stderr)) only when the channel worked and
\* the remote exit status is 0.
\* fault: the channel could not be opened, written or read.
ExecuteCommand(cmd, fault, exit, out) ==
  IF fault THEN [ok |-> FALSE, out |-> <<>>, err |-> Error("channel_error", cmd, 0)]
  ELSE IF exit # 0
    THEN [ok |-> FALSE, out |-> <<>>, err |-> Error("command_failed", cmd, exit)]
    ELSE [ok |-> TRUE, out |-> out, err |-> NoError]

\* What `[ -f p ] && echo 'exists' || echo 'not exists'` prints.
TestFileOutput(present) ==
  IF present THEN <<"exists", "\n">> ELSE <<"not", " ", "exists", "\n">>

RemoteFileExistsUntrimmed(res) ==
  IF res.ok THEN res.out = <<"exists">> ELSE FALSE

RemoteFileExistsSwapped(res) ==
  IF res.ok THEN Trim(res.out) # <<"exists">> ELSE FALSE

\* remote_file_exists: Ok(output.trim() == "exists"), Err(_) => Ok(false).
RemoteFileExists(res) ==
  IF res.ok THEN Trim(res.out) = <<"exists">> ELSE FALSE

BackoffDelayDoubled(attempt) == Pow2(attempt)

\* Duration::from_secs(2_u64.pow(attempt - 1))
BackoffDelay(attempt) == Pow2(attempt - 1)

SleepsAfterAlways(attempt, max_retries) == attempt <= max_retries

\* if attempt < max_retries { ... sleep(delay).await }
SleepsAfter(attempt, max_retries) == attempt < max_retries

\* connect_ssh: the outcome of one attempt.  env says what the network and
\* the server do: tcp, handshake, keyFile (the key file exists locally),
\* keyAuth, pwAuth.
KeyTried(cfg, env) == cfg.key_path # None /\ env.keyFile
KeyAuthenticated(cfg, env) == KeyTried(cfg, env) /\ env.keyAuth
PasswordTriedAlways(cfg, env) == cfg.password # None

PasswordTried(cfg, env) == ~KeyAuthenticated(cfg, env) /\ cfg.password # None
Authenticated(cfg, env) ==
  KeyAuthenticated(cfg, env) \/ (PasswordTried(cfg, env) /\ env.pwAuth)

ConnectSsh(cfg, env) ==
  IF ~env.tcp THEN "tcp_failed"
  ELSE IF ~env.handshake THEN "handshake_failed"
  ELSE IF ~Authenticated(cfg, env) THEN "auth_failed"
  ELSE "ok"

ConnectEnvs ==
  [tcp : BOOLEAN, handshake : BOOLEAN, keyFile : BOOLEAN,
   keyAuth : BOOLEAN, pwAuth : BOOLEAN]

Configs == [key_path : {None, "~/.ssh/id"}, password : {None, "pw"}]



\* Events of one run, in program order.
Cmd(name) == [kind |-> "cmd", name |-> name, pct |-> 0]
Local(name) == [kind |-> "local", name |-> name, pct |-> 0]
Attempt == [kind |-> "connect", name |-> "connect_ssh", pct |-> 0]
\* progress.set_message(message) and callback(pct, message); pct in 1/100.
Progress(pct, message) == [kind |-> "progress", name |-> message, pct |-> pct]

ValidateBinaryOnly(c, bin) ==
  IF bin = "missing" THEN "binary_not_found"
  ELSE IF bin = "empty" THEN "binary_empty"
  ELSE "ok"

\* validate_deployment_prerequisites
ValidateDeploymentPrerequisites(c, bin) ==
  IF bin = "missing" THEN "binary_not_found"
  ELSE IF bin = "empty" THEN "binary_empty"
  ELSE IF c.key_path = None /\ c.password = None THEN "auth_not_configured"
  ELSE "ok"

\* upload_file: session.scp_send(local_path, 0o644, len, None) -- the path
\* handed to scp_send, which is the path written on the remote side, is the
\* LOCAL path; remote_path is only used in messages.
ScpDestination(local_path, remote_path) == local_path

ServiceStartedNotInactive(out) == Trim(out) # <<"inactive">>

\* start_service / rollback_deployment: output.trim() == "active"
ServiceStarted(out) == Trim(out) = <<"active">>

\* What `systemctl is-active` prints for a state.
IsActiveOutput(state) == IF state = "unknown" THEN <<>> ELSE <<state, "\n">>

\* ----------------------------------------------------------------- state

VARIABLES
  config,       \* the credentials of the loaded Config (DeployConfig)
  binary,       \* the local binary file: a member of LocalStates
  remote,       \* the remote file system: RemotePaths -> bytes or Absent
  service,      \* the state of the service on the remote host
  op,           \* the operation in progress: none, deploy, rollback, connect
  dry_run,      \* the run's dry_run argument (cli.dry_run)
  skip_build,   \* the run's skip_build argument
  pc,           \* where the operation is
  max_retries,  \* connect_with_retry's parameter
  attempt,      \* connect_with_retry's loop variable
  waited,       \* seconds slept by connect_with_retry in this run
  last_error,   \* connect_with_retry's last_error (NoError: None)
  auth,         \* the authentication methods the last connect_ssh tried
  session,      \* TRUE while the run holds an authenticated session
  position,     \* the progress bar's position (progress.inc)
  trace,        \* the events of the run in progress
  result,       \* the run's result: [ok, value, err], or NoResult
  query,        \* the last result of `systemctl is-active`
  pre,          \* the remote file system when the run started
  uploaded,     \* the bytes the run's upload sent (None: no upload yet)
  last1,        \* the run completed last: [op, ok, bin]
  last2         \* the bytes deployed by the run before last1

run_vars ==
  <<config, binary, remote, service, op, dry_run, skip_build, pc, max_retries,
    attempt, waited,
    last_error, auth, session, position, trace, result, query, pre, uploaded,
    last1, last2>>

\* Monitoring (src/commands/monitor.rs).
VARIABLES
  monitor,      \* the monitor section of the loaded Config (MonitorConfig)
  status,       \* the ApplicationStatus at hand (check_status's last value)
  healthy,      \* what is_healthy() returned for status (<<>>: not called)
  summary,      \* what summary() returned for status (<<>>: not called)
  iteration,    \* run_continuous's loop variable
  probes        \* what the probes of the last check_status met

monitor_vars == <<monitor, status, healthy, summary, iteration, probes>>

\* The interface (src/tui.rs).
VARIABLES
  app,          \* the shared App behind the mutex
  queue,        \* the messages in the channel, oldest first
  rx_closed,    \* TRUE once the receiver is dropped (run_app returned)
  tasks,        \* the background tasks spawned: TaskIds -> [kind, pc, i, ...]
  render,       \* run_app's render loop: running, or what it returned
  events,       \* the input-reading task: polling or ended
  pressed,      \* the number of keys the input-reading task handled
  sent,         \* per task, the messages it handed to tx.send, in order
  folded,       \* per task, the numbers of its messages folded, in order
  lock,         \* who holds the Mutex of the App: none, input or render
  received      \* the message try_recv returned, until it is handled

\* The lock and what is taken between two lock sections.
lock_vars == <<lock, received>>

tui_vars ==
  <<app, queue, rx_closed, tasks, render, events, pressed, sent, folded,
    lock_vars>>

VARIABLES
  log_level,    \* Cli::log_level, a u8
  log_filter,   \* what cli.log_filter() returned, once called
  cli_valid     \* what cli.validate() returned, once called

cli_vars == <<log_level, log_filter, cli_valid>>

VARIABLES
  supplied,     \* the --name and --host given to `init`, each an Option
  wrote,        \* which function wrote the configuration file
  file,         \* the configuration file: None, or its lines
  loaded        \* what Config::from_file returned, once called

file_vars == <<supplied, wrote, file, loaded>>

\* The command line and the configuration file.
front_vars == <<cli_vars, file_vars>>

vars == <<run_vars, monitor_vars, tui_vars, front_vars>>

\* What a deploy, a rollback or a connection leaves alone.
beside_run == <<monitor_vars, tui_vars, front_vars>>

NoResult == [ok |-> FALSE, value |-> "pending", err |-> NoError]
Ok(value) == [ok |-> TRUE, value |-> value, err |-> NoError]
Err(e) == [ok |-> FALSE, value |-> "error", err |-> e]

NoQuery == [ok |-> FALSE, out |-> <<>>]
\* No network and no server: every step of a connection fails.
NoEnv ==
  [tcp |-> FALSE, handshake |-> FALSE, keyFile |-> FALSE, keyAuth |-> FALSE,
   pwAuth |-> FALSE]

NoAuth == [key |-> FALSE, password |-> FALSE, env |-> NoEnv, outcome |-> "none"]
NoRun == [op |-> "none", ok |-> FALSE, bin |-> None]

\* Option<T> as a sequence of at most one element: None is Nil, Some(x) is
\* <<x>>.
Nil == <<>>
Some(x) == <<x>>

\* ApplicationStatus::default()
DefaultStatus ==
  [health_ok |-> FALSE, ssh_ok |-> FALSE, response_time |-> Nil,
   service_status |-> Nil, last_error |-> Nil]

NoProbes == [http |-> "none", ssh |-> FALSE, returned |-> "none"]

\* The monitor section of create_default's configuration, without an
\* endpoint or a log path.
DefaultMonitor ==
  [health_endpoint |-> Nil, log_path |-> Nil, interval_secs |-> 10]

\* No monitoring has taken place.
MonitorIdle ==
  /\ monitor = DefaultMonitor
  /\ status = DefaultStatus
  /\ healthy = Nil
  /\ summary = Nil
  /\ iteration = 0
  /\ probes = NoProbes

TaskIds == 1..MaxTasks

\* A task id nothing was spawned for.
NoTask == [kind |-> "none", pc |-> "none", i |-> 0, failed |-> FALSE]

\* App::new(config)
NewApp ==
  [current_tab |-> "Build",
   should_quit |-> FALSE,
   status_message |-> Nil,
   build_state |->
     [is_building |-> FALSE, progress |-> 0, logs |-> <<>>, build_info |-> Nil],
   deploy_state |->
     [is_deploying |-> FALSE, progress |-> 0, current_step |-> "Ready",
      logs |-> <<>>, deployment_status |-> Nil],
   monitor_state |->
     [is_monitoring |-> FALSE, status |-> Nil, logs |-> <<>>,
      metrics |-> Nil]]

\* run_app before its loops: the App as constructed, an empty channel, no
\* background task.
TuiIdle ==
  /\ app = NewApp
  /\ queue = <<>>
  /\ rx_closed = FALSE
  /\ tasks = [t \in TaskIds |-> NoTask]
  /\ render = "running"
  /\ events = "polling"
  /\ pressed = 0
  /\ sent = [t \in TaskIds |-> <<>>]
  /\ folded = [t \in TaskIds |-> <<>>]
  /\ lock = "none"
  /\ received = Nil

\* A deploy, a rollback or a connection starts with nothing else going on.
\* The default command line, not yet validated.
CliIdle ==
  /\ log_level = 3
  /\ log_filter = Nil
  /\ cli_valid = Nil

\* No configuration file written or loaded.
FileIdle ==
  /\ supplied = [name |-> Nil, host |-> Nil]
  /\ wrote = "none"
  /\ file = Nil
  /\ loaded = Nil

FrontIdle == CliIdle /\ FileIdle

BesideRunIdle == MonitorIdle /\ TuiIdle /\ FrontIdle

\* The remote hosts a run can meet first: nothing deployed, or a binary (and
\* its unit) installed by hand, with or without a backup beside it.
InitialRemotes ==
  {[p \in RemotePaths |->
      IF p = RemoteBinaryPath THEN b
      ELSE IF p = BackupBinaryPath THEN k
      ELSE IF p = ServiceFile THEN u
      ELSE Absent] :
    b \in {Absent, "OLD0"}, k \in {Absent, "OLD1"}, u \in {Absent, UnitText}}

RunInit ==
  /\ dry_run = FALSE
  /\ skip_build = FALSE
  /\ attempt = 1
  /\ waited = 0
  /\ last_error = NoError
  /\ auth = NoAuth
  /\ session = FALSE
  /\ position = 0
  /\ trace = <<>>
  /\ result = NoResult
  /\ query = NoQuery
  /\ uploaded = None
  /\ last1 = NoRun
  /\ last2 = None

Init ==
  /\ config \in Configs
  /\ binary \in LocalStates
  /\ remote \in InitialRemotes
  /\ service \in (IF remote[ServiceFile] = Absent THEN {"unknown"}
                  ELSE IF remote[RemoteBinaryPath] = Absent THEN {"inactive"}
                  ELSE {"inactive", "active"})
  /\ pre = remote
  /\ op = "none"
  /\ pc = "idle"
  /\ max_retries = 0
  /\ RunInit
  /\ BesideRunIdle

TypeOK ==
  /\ config \in Configs
  /\ binary \in LocalStates
  /\ \A p \in RemotePaths : remote[p] \in RemoteBinaries \cup {Absent, UnitText}
  /\ service \in ServiceStates
  /\ op \in {"none", "deploy", "rollback", "connect", "monitor", "probe",
            "status"}
  /\ dry_run \in BOOLEAN
  /\ skip_build \in BOOLEAN
  /\ session \in BOOLEAN
  /\ attempt \in 1..(MaxAttempts + 2)
  /\ position \in 0..6
  /\ uploaded \in LocalBinaries \cup {None}

\* Leaving a run with an error: `?` returns it at once.
Fail(e) ==
  /\ pc' = "done"
  /\ result' = Err(e)


\* What a remote step leaves alone.
StepFrame ==
  UNCHANGED <<config, binary, op, dry_run, skip_build, max_retries, attempt, waited,
              last_error, auth, session, pre, uploaded, last1, last2,
              beside_run>>

\* What starting a run resets.
Begin(operation, retries) ==
  /\ pc = "idle"
  /\ op' = operation
  /\ pre' = remote
  /\ max_retries' = retries
  /\ attempt' = 1
  /\ waited' = 0
  /\ last_error' = NoError
  /\ auth' = NoAuth
  /\ session' = FALSE
  /\ position' = 0
  /\ query' = NoQuery
  /\ uploaded' = None
  /\ UNCHANGED <<config, remote, service, last1, last2, beside_run>>

RunsValidationOnDryRun(dry) == dry

RunsValidationAlways(dry) == TRUE

\* deploy_project_with_progress: if !dry_run { validate...(config)?; }
RunsValidation(dry) == ~dry

\* deploy_project_with_progress up to the call of execute_deployment, and
\* execute_deployment's first progress message.  needs: needs_rebuild(config);
\* cargo_ok: cargo build succeeded; product: the bytes it wrote.
StartDeploy(dry, skip) ==
  /\ Begin("deploy", DeployRetries)
  /\ dry_run' = dry
  /\ skip_build' = skip
  /\ \E needs \in BOOLEAN, cargo_ok \in BOOLEAN, product \in LocalBinaries :
       LET validates == RunsValidation(dry)
           v == IF validates
                  THEN ValidateDeploymentPrerequisites(config, binary)
                  ELSE "ok"
           t1 == IF validates THEN <<Local("validate")>> ELSE <<>>
       IN IF v # "ok" THEN
            /\ trace' = t1
            /\ Fail(Error(v, "", 0))
            /\ UNCHANGED binary
          ELSE IF dry THEN
            \* simulate_deployment
            /\ trace' = Append(t1, Local("simulate"))
            /\ pc' = "done"
            /\ result' = Ok("dry_run")
            /\ UNCHANGED binary
          ELSE IF ~skip /\ needs /\ ~cargo_ok THEN
            \* build::build_project(config, None, dry_run).await?
            /\ trace' = Append(t1, Local("build"))
            /\ Fail(Error("build_failed", "", 0))
            /\ UNCHANGED binary
          ELSE IF binary = "missing" /\ (skip \/ ~needs) THEN
            \* find_binary(...)?  after the build step
            /\ trace' = IF skip THEN t1 ELSE Append(t1, Local("build"))
            /\ Fail(Error("binary_not_found", "", 0))
            /\ UNCHANGED binary
          ELSE
            /\ binary' = IF ~skip /\ needs THEN product ELSE binary
            /\ trace' = (IF skip THEN t1 ELSE Append(t1, Local("build")))
                          \o <<Progress(1667, "Connecting to server...")>>
            /\ pc' = "connect"
            /\ result' = NoResult

\* Where a run goes once connect_with_retry returned Ok(session): the
\* caller keeps the session, and the loop's locals are gone.
Connected ==
  /\ session' = TRUE
  /\ IF op = "deploy" THEN
       /\ position' = position + 1
       /\ trace' = trace \o
            <<Attempt, Progress(3333, "Creating remote directory...")>>
       /\ pc' = "mkdir"
       /\ result' = NoResult
       /\ attempt' = 1
       /\ waited' = 0
       /\ last_error' = NoError
       /\ auth' = NoAuth
     ELSE IF op = "rollback" THEN
       /\ trace' = Append(trace, Attempt)
       /\ pc' = "rb_stop"
       /\ result' = NoResult
       /\ attempt' = 1
       /\ waited' = 0
       /\ last_error' = NoError
       /\ auth' = NoAuth
       /\ UNCHANGED position
     ELSE
       \* connect_with_retry called on its own: what it returns is the result
       /\ trace' = Append(trace, Attempt)
       /\ pc' = "done"
       /\ result' = Ok("session")
       /\ UNCHANGED <<position, attempt, waited, last_error>>

\* What one connect_ssh did: the authentication methods it tried and, when
\* connect_with_retry is observed on its own, what the network and the
\* server answered and what connect_ssh returned.
Tried(cfg, env, r, observed) ==
  [key |-> env.tcp /\ env.handshake /\ KeyTried(cfg, env),
   password |-> env.tcp /\ env.handshake /\ PasswordTried(cfg, env),
   env |-> IF observed THEN env ELSE NoEnv,
   outcome |-> IF observed THEN r ELSE "none"]

\* One iteration of connect_with_retry's loop: connect_ssh, and on failure
\* the backoff sleep.
ConnectAttempt ==
  /\ pc = "connect"
  /\ attempt <= max_retries
  /\ \E env \in ConnectEnvs :
       LET r == ConnectSsh(config, env) IN
       IF r = "ok" THEN
         /\ Connected
         /\ op = "connect" => auth' = Tried(config, env, r, TRUE)
       ELSE
         /\ auth' = Tried(config, env, r, op = "connect")
         /\ last_error' = Error(r, "", attempt)
         /\ waited' = waited + (IF SleepsAfter(attempt, max_retries)
                                  THEN BackoffDelay(attempt) ELSE 0)
         /\ attempt' = attempt + 1
         /\ trace' = Append(trace, Attempt)
         /\ UNCHANGED <<session, position, pc, result>>
  /\ UNCHANGED <<config, binary, remote, service, op, dry_run, skip_build, max_retries,
                 query, pre, uploaded, last1, last2, beside_run>>

\* connect_with_retry after its loop:
\* Err(last_error.unwrap_or_else(|| anyhow!("SSH connection failed ...")))
ConnectGiveUp ==
  /\ pc = "connect"
  /\ attempt > max_retries
  /\ Fail(IF last_error # NoError THEN last_error
          ELSE Error("connection_failed", "", 0))
  /\ UNCHANGED <<config, binary, remote, service, op, dry_run, skip_build, max_retries,
                 attempt, waited, last_error, auth, session, position, trace, query,
                 pre, uploaded, last1, last2, beside_run>>


\* ------------------------------------------------- execute_deployment

MkdirIgnoringFailure ==
  /\ pc = "mkdir"
  /\ \E fault \in BOOLEAN :
       LET res == ExecuteCommand("mkdir", fault, 0, <<>>) IN
       /\ position' = IF res.ok THEN position + 1 ELSE position
       /\ trace' = trace \o
            <<Cmd("mkdir"), Progress(5000, "Uploading binary...")>>
       /\ pc' = "probe"
       /\ UNCHANGED result
  /\ UNCHANGED <<remote, service, query>>
  /\ StepFrame

\* utils::ssh::create_remote_directory(&session, &deploy_path)?
Mkdir ==
  /\ pc = "mkdir"
  /\ \E fault \in BOOLEAN :
       LET res == ExecuteCommand("mkdir", fault, 0, <<>>) IN
       IF res.ok THEN
            /\ position' = position + 1
            /\ trace' = trace \o
                 <<Cmd("mkdir"), Progress(5000, "Uploading binary...")>>
            /\ pc' = "probe"
            /\ UNCHANGED result
          ELSE
            /\ trace' = Append(trace, Cmd("mkdir"))
            /\ Fail(res.err)
            /\ UNCHANGED position
  /\ UNCHANGED <<remote, service, query>>
  /\ StepFrame

\* let binary_exists = remote_file_exists(&session, &remote_binary_path)?
Probe ==
  /\ pc = "probe"
  /\ \E fault \in BOOLEAN :
       LET present == remote[RemoteBinaryPath] # Absent
           res == ExecuteCommand("test_binary", fault, 0, TestFileOutput(present))
       IN pc' = IF RemoteFileExists(res) THEN "backup" ELSE "upload"
  /\ trace' = Append(trace, Cmd("test_binary"))
  /\ UNCHANGED <<remote, service, query, position, result>>
  /\ StepFrame

\* cp src dst on the remote host: fails when src is missing.
Copy(fs, src, dst) == [fs EXCEPT ![dst] = fs[src]]

Move(fs, src, dst) == [fs EXCEPT ![dst] = fs[src], ![src] = Absent]

\* execute_command(&session, "cp <remote_binary_path> <backup_binary_path>")?
Backup ==
  /\ pc = "backup"
  /\ \E fault \in BOOLEAN :
       LET exit == IF remote[RemoteBinaryPath] = Absent THEN 1 ELSE 0
           res == ExecuteCommand("cp_backup", fault, exit, <<>>)
       IN IF res.ok THEN
               /\ remote' = Copy(remote, RemoteBinaryPath, BackupBinaryPath)
               /\ pc' = "upload"
               /\ UNCHANGED result
             ELSE
               /\ Fail(res.err)
               /\ UNCHANGED remote
  /\ trace' = Append(trace, Cmd("cp_backup"))
  /\ UNCHANGED <<service, query, position>>
  /\ StepFrame

\* utils::ssh::upload_file(&session, binary_path, &remote_binary_path)?
Upload ==
  /\ pc = "upload"
  /\ \E fault \in BOOLEAN :
       LET dest == ScpDestination(BinaryPath, RemoteBinaryPath) IN
       IF ~fault THEN
            /\ remote' = [remote EXCEPT ![dest] = binary]
            /\ uploaded' = binary
            /\ position' = position + 1
            /\ trace' = trace \o
                 <<Cmd("scp"),
                   Progress(6667, "Setting executable permissions...")>>
            /\ pc' = "chmod"
            /\ UNCHANGED result
          ELSE
            /\ trace' = Append(trace, Cmd("scp"))
            /\ Fail(Error("transfer_failed", "scp", 0))
            /\ UNCHANGED <<remote, uploaded, position>>
  /\ UNCHANGED <<service, query>>
  /\ UNCHANGED <<config, binary, op, dry_run, skip_build, max_retries, attempt, waited,
                 last_error, auth, session, pre, last1, last2, beside_run>>

\* execute_command(&session, "chmod +x <remote_binary_path>")?
Chmod ==
  /\ pc = "chmod"
  /\ \E fault \in BOOLEAN :
       LET exit == IF remote[RemoteBinaryPath] = Absent THEN 1 ELSE 0
           res == ExecuteCommand("chmod", fault, exit, <<>>)
       IN IF res.ok THEN
               /\ position' = position + 1
               /\ trace' = trace \o
                    <<Cmd("chmod"), Progress(8333, "Creating systemd service...")>>
               /\ pc' = "unit_cat"
               /\ UNCHANGED result
             ELSE
               /\ trace' = Append(trace, Cmd("chmod"))
               /\ Fail(res.err)
               /\ UNCHANGED position
  /\ UNCHANGED <<remote, service, query>>
  /\ StepFrame

\* create_systemd_service: cat > /tmp/<service_name> << 'EOF' ...
UnitCat ==
  /\ pc = "unit_cat"
  /\ \E fault \in BOOLEAN :
       LET res == ExecuteCommand("cat_unit", fault, 0, <<>>) IN
       IF res.ok THEN
            /\ remote' = [remote EXCEPT ![TempServicePath] = UnitText]
            /\ pc' = "unit_mv"
            /\ UNCHANGED result
          ELSE
            /\ Fail(res.err)
            /\ UNCHANGED remote
  /\ trace' = Append(trace, Cmd("cat_unit"))
  /\ UNCHANGED <<service, query, position>>
  /\ StepFrame

\* create_systemd_service: sudo mv /tmp/<service_name> /etc/systemd/system/
UnitMv ==
  /\ pc = "unit_mv"
  /\ \E fault \in BOOLEAN :
       LET exit == IF remote[TempServicePath] = Absent THEN 1 ELSE 0
           res == ExecuteCommand("mv_unit", fault, exit, <<>>)
       IN IF res.ok THEN
               /\ remote' = Move(remote, TempServicePath, ServiceFile)
               /\ pc' = "unit_reload"
               /\ UNCHANGED result
             ELSE
               /\ Fail(res.err)
               /\ UNCHANGED remote
  /\ trace' = Append(trace, Cmd("mv_unit"))
  /\ UNCHANGED <<service, query, position>>
  /\ StepFrame

\* create_systemd_service: sudo systemctl daemon-reload; a unit that was not
\* loaded becomes known to systemd.
UnitReload ==
  /\ pc = "unit_reload"
  /\ \E fault \in BOOLEAN :
       LET res == ExecuteCommand("daemon_reload", fault, 0, <<>>) IN
       IF res.ok THEN
            /\ service' = IF service = "unknown" /\ remote[ServiceFile] # Absent
                            THEN "inactive" ELSE service
            /\ position' = position + 1
            /\ trace' = trace \o
                 <<Cmd("daemon_reload"), Progress(10000, "Starting service...")>>
            /\ pc' = "svc_stop"
            /\ UNCHANGED result
          ELSE
            /\ trace' = Append(trace, Cmd("daemon_reload"))
            /\ Fail(res.err)
            /\ UNCHANGED <<service, position>>
  /\ UNCHANGED <<remote, query>>
  /\ StepFrame


\* --------------------------------------------------------- start_service

\* let _ = execute_command(&session, "sudo systemctl stop <service>")
SvcStop ==
  /\ pc = "svc_stop"
  /\ \E fault \in BOOLEAN :
       LET exit == IF service = "unknown" THEN 5 ELSE 0
           res == ExecuteCommand("stop", fault, exit, <<>>)
       IN service' = IF res.ok THEN "inactive" ELSE service
  /\ pc' = "svc_enable"
  /\ trace' = Append(trace, Cmd("stop"))
  /\ UNCHANGED <<remote, query, position, result>>
  /\ StepFrame

\* execute_command(&session, "sudo systemctl enable <service>")?
SvcEnable ==
  /\ pc = "svc_enable"
  /\ \E fault \in BOOLEAN :
       LET exit == IF remote[ServiceFile] = Absent THEN 1 ELSE 0
           res == ExecuteCommand("enable", fault, exit, <<>>)
       IN IF res.ok THEN pc' = "svc_start" /\ UNCHANGED result
                       ELSE Fail(res.err)
  /\ trace' = Append(trace, Cmd("enable"))
  /\ UNCHANGED <<remote, service, query, position>>
  /\ StepFrame

\* What `systemctl start` can leave the service in: it exits 0 once the
\* process is forked, and the process may die at once; it cannot run a
\* binary that is not there.
StartedStates(fs) ==
  IF fs[RemoteBinaryPath] = Absent THEN {"failed"} ELSE {"active", "failed"}

\* The effect of "sudo systemctl start <service>" on the host.
SystemctlStart(next) ==
  \E fault \in BOOLEAN, started \in StartedStates(remote) :
    LET exit == IF service = "unknown" THEN 5 ELSE 0
        res == ExecuteCommand("start", fault, exit, <<>>)
    IN IF res.ok THEN
            /\ service' = started
            /\ pc' = next
            /\ UNCHANGED result
          ELSE
            /\ Fail(res.err)
            /\ UNCHANGED service

\* The answer of "sudo systemctl is-active <service>": systemctl exits 0 only
\* for an active unit; a host that answers 0 with another state, or with no
\* text at all (silent), is allowed for, since the callers compare the text.
SystemctlIsActive(fault, exit, silent) ==
  ExecuteCommand("is_active", fault, exit,
                 IF silent THEN <<>> ELSE IsActiveOutput(service))

IsActiveExits == IF service = "active" THEN {0} ELSE {0, 3}

\* execute_command(&session, "sudo systemctl start <service>")?
SvcStart ==
  /\ pc = "svc_start"
  /\ SystemctlStart("svc_query")
  /\ trace' = Append(trace, Cmd("start"))
  /\ UNCHANGED <<remote, query, position>>
  /\ StepFrame

\* start_service: the is-active query and the comparison with "active".
SvcQuery ==
  /\ pc = "svc_query"
  /\ \E fault \in BOOLEAN, exit \in IsActiveExits, silent \in BOOLEAN :
       LET res == SystemctlIsActive(fault, exit, silent) IN
       /\ query' = res
       /\ IF ~res.ok THEN
            /\ trace' = Append(trace, Cmd("is_active"))
            /\ Fail(res.err)
            /\ UNCHANGED position
          ELSE IF ~ServiceStarted(res.out) THEN
            /\ trace' = Append(trace, Cmd("is_active"))
            /\ Fail(Error("service_failed_to_start", "", 0))
            /\ UNCHANGED position
          ELSE
            /\ position' = position + 1
            /\ trace' = Append(trace, Cmd("is_active"))
            /\ pc' = "done"
            /\ result' = Ok("deployed")
  /\ UNCHANGED <<remote, service>>
  /\ StepFrame

\* --------------------------------------------------- rollback_deployment

StartRollback ==
  /\ Begin("rollback", DeployRetries)
  /\ dry_run' = FALSE
  /\ skip_build' = FALSE
  /\ trace' = <<>>
  /\ pc' = "connect"
  /\ result' = NoResult
  /\ UNCHANGED binary

\* let _ = execute_command(&session, "sudo systemctl stop <service>")
RbStop ==
  /\ pc = "rb_stop"
  /\ \E fault \in BOOLEAN :
       LET exit == IF service = "unknown" THEN 5 ELSE 0
           res == ExecuteCommand("stop", fault, exit, <<>>)
       IN service' = IF res.ok THEN "inactive" ELSE service
  /\ pc' = "rb_probe"
  /\ trace' = Append(trace, Cmd("stop"))
  /\ UNCHANGED <<remote, query, position, result>>
  /\ StepFrame

RbProbeCurrent ==
  /\ pc = "rb_probe"
  /\ \E fault \in BOOLEAN :
       LET present == remote[RemoteBinaryPath] # Absent
           res == ExecuteCommand("test_backup", fault, 0, TestFileOutput(present))
       IN IF RemoteFileExists(res) THEN pc' = "rb_cp" /\ UNCHANGED result
                                      ELSE Fail(Error("no_backup", "", 0))
  /\ trace' = Append(trace, Cmd("test_backup"))
  /\ UNCHANGED <<remote, service, query, position>>
  /\ StepFrame

\* let backup_exists = remote_file_exists(&session, &backup_binary)?;
\* if !backup_exists { return Err(anyhow!("No backup found for rollback...")) }
RbProbe ==
  /\ pc = "rb_probe"
  /\ \E fault \in BOOLEAN :
       LET present == remote[BackupBinaryPath] # Absent
           res == ExecuteCommand("test_backup", fault, 0, TestFileOutput(present))
       IN IF RemoteFileExists(res) THEN pc' = "rb_cp" /\ UNCHANGED result
                                      ELSE Fail(Error("no_backup", "", 0))
  /\ trace' = Append(trace, Cmd("test_backup"))
  /\ UNCHANGED <<remote, service, query, position>>
  /\ StepFrame

RestoreByMove(fs) == Move(fs, BackupBinaryPath, RemoteBinaryPath)

\* "cp <backup_binary> <current_binary>"
Restore(fs) == Copy(fs, BackupBinaryPath, RemoteBinaryPath)

\* execute_command(&session, "cp <backup_binary> <current_binary>")?
RbCp ==
  /\ pc = "rb_cp"
  /\ \E fault \in BOOLEAN :
       LET exit == IF remote[BackupBinaryPath] = Absent THEN 1 ELSE 0
           res == ExecuteCommand("cp_restore", fault, exit, <<>>)
       IN IF res.ok THEN
               /\ remote' = Restore(remote)
               /\ pc' = "rb_chmod"
               /\ UNCHANGED result
             ELSE
               /\ Fail(res.err)
               /\ UNCHANGED remote
  /\ trace' = Append(trace, Cmd("cp_restore"))
  /\ UNCHANGED <<service, query, position>>
  /\ StepFrame

RbChmodReinstalling ==
  /\ pc = "rb_chmod"
  /\ \E fault \in BOOLEAN :
       LET exit == IF remote[RemoteBinaryPath] = Absent THEN 1 ELSE 0
           res == ExecuteCommand("chmod", fault, exit, <<>>)
       IN IF res.ok THEN pc' = "unit_cat" /\ UNCHANGED result
                       ELSE Fail(res.err)
  /\ trace' = Append(trace, Cmd("chmod"))
  /\ UNCHANGED <<remote, service, query, position>>
  /\ StepFrame

\* execute_command(&session, "chmod +x <current_binary>")?
RbChmod ==
  /\ pc = "rb_chmod"
  /\ \E fault \in BOOLEAN :
       LET exit == IF remote[RemoteBinaryPath] = Absent THEN 1 ELSE 0
           res == ExecuteCommand("chmod", fault, exit, <<>>)
       IN IF res.ok THEN pc' = "rb_start" /\ UNCHANGED result
                       ELSE Fail(res.err)
  /\ trace' = Append(trace, Cmd("chmod"))
  /\ UNCHANGED <<remote, service, query, position>>
  /\ StepFrame

\* execute_command(&session, "sudo systemctl start <service>")?
RbStart ==
  /\ pc = "rb_start"
  /\ SystemctlStart("rb_query")
  /\ trace' = Append(trace, Cmd("start"))
  /\ UNCHANGED <<remote, query, position>>
  /\ StepFrame

\* rollback_deployment: the is-active query and the comparison with "active".
RbQuery ==
  /\ pc = "rb_query"
  /\ \E fault \in BOOLEAN, exit \in IsActiveExits, silent \in BOOLEAN :
       LET res == SystemctlIsActive(fault, exit, silent) IN
       /\ query' = res
       /\ IF ~res.ok THEN Fail(res.err)
          ELSE IF ~ServiceStarted(res.out)
            THEN Fail(Error("service_failed_after_rollback", "", 0))
          ELSE pc' = "done" /\ result' = Ok("rolled_back")
  /\ trace' = Append(trace, Cmd("is_active"))
  /\ UNCHANGED <<remote, service, position>>
  /\ StepFrame

\* ------------------------------------------------------------ the runs

\* What returning to the caller (main.rs handle_command) resets: the session
\* and the run's locals are dropped.
Return ==
  /\ pc = "done"
  /\ op \in {"deploy", "rollback"}
  /\ op' = "none"
  /\ dry_run' = FALSE
  /\ skip_build' = FALSE
  /\ pc' = "idle"
  /\ max_retries' = 0
  /\ attempt' = 1
  /\ waited' = 0
  /\ last_error' = NoError
  /\ auth' = NoAuth
  /\ session' = FALSE
  /\ position' = 0
  /\ trace' = <<>>
  /\ result' = NoResult
  /\ query' = NoQuery
  /\ uploaded' = None
  /\ pre' = remote
  /\ UNCHANGED <<config, binary, remote, service, beside_run>>

\* The operation returns; nothing of it is remembered.
Finish ==
  /\ Return
  /\ UNCHANGED <<last1, last2>>

\* The operation returns, and the run is entered in the record of runs:
\* last1 is the run, last2 the bytes deployed by the run before it when both
\* it and the run are successful deploys (None otherwise).
FinishRecorded ==
  /\ Return
  /\ last1' = [op |-> op, ok |-> result.ok,
               bin |-> IF result.ok THEN uploaded ELSE None]
  /\ last2' = IF op = "deploy" /\ result.ok /\ uploaded # None
                 /\ last1.op = "deploy" /\ last1.ok
                THEN last1.bin ELSE None

\* The steps of a run.
Step ==
  \/ \E dry \in BOOLEAN, skip \in BOOLEAN : StartDeploy(dry, skip)
  \/ StartRollback
  \/ ConnectAttempt
  \/ ConnectGiveUp
  \/ Mkdir
  \/ Probe
  \/ Backup
  \/ Upload
  \/ Chmod
  \/ UnitCat
  \/ UnitMv
  \/ UnitReload
  \/ SvcStop
  \/ SvcEnable
  \/ SvcStart
  \/ SvcQuery
  \/ RbStop
  \/ RbProbe
  \/ RbCp
  \/ RbChmod
  \/ RbStart
  \/ RbQuery

\* Deploys and rollbacks, one run after the other.
Next == Step \/ Finish

Spec == Init /\ [][Next]_vars

\* The same, with the record of the last runs kept.
NextRuns == Step \/ FinishRecorded

SpecRuns == Init /\ [][NextRuns]_vars

\* connect_with_retry on its own, for every max_retries up to MaxAttempts.
InitConnect ==
  /\ config \in Configs
  /\ binary = "missing"
  /\ remote = [p \in RemotePaths |-> Absent]
  /\ service = "unknown"
  /\ pre = remote
  /\ op = "connect"
  /\ pc = "connect"
  /\ max_retries \in 0..MaxAttempts
  /\ RunInit
  /\ BesideRunIdle

NextConnect == ConnectAttempt \/ ConnectGiveUp

SpecConnect == InitConnect /\ [][NextConnect]_vars


\* ------------------------------------------------------ ApplicationStatus

\* A service status text, as a sequence of tokens.
Active == <<"active">>

IsHealthyWithoutService(s) == s.health_ok /\ s.ssh_ok

\* ApplicationStatus::is_healthy: self.health_ok && self.ssh_ok &&
\* matches!(self.service_status.as_deref(), Some("active"))
IsHealthy(s) == s.health_ok /\ s.ssh_ok /\ s.service_status = Some(Active)

\* ApplicationStatus::summary: the text, and the issues it joins.
Summary(s) ==
  IF IsHealthy(s) THEN [text |-> "All systems operational", issues |-> <<>>]
  ELSE
    LET i1 == IF ~s.health_ok THEN <<"Health check failing">> ELSE <<>>
        i2 == IF ~s.ssh_ok THEN <<"SSH connection failed">> ELSE <<>>
        i3 == IF s.service_status # Some(Active)
                THEN <<"Service not active">> ELSE <<>>
        issues == i1 \o i2 \o i3
    IN IF issues = <<>> THEN [text |-> "Status unknown", issues |-> <<>>]
       ELSE [text |-> "Issues", issues |-> issues]

\* The texts a service status can hold: untrimmed and other-case texts are
\* not "active".
ServiceTexts ==
  {Active, <<"inactive">>, <<"failed">>, <<>>, <<"active", "\n">>, <<"Active">>}

\* Every ApplicationStatus (all fields are public).
Statuses ==
  [health_ok : BOOLEAN, ssh_ok : BOOLEAN, response_time : {Nil, Some(50)},
   service_status : {Nil} \cup {Some(t) : t \in ServiceTexts},
   last_error : {Nil, Some(Error("health_failed", "", 0))}]

\* status.is_healthy()
CallIsHealthy ==
  /\ healthy' = Some(IsHealthy(status))
  /\ UNCHANGED <<monitor, status, summary, iteration, probes, run_vars, tui_vars,
               front_vars>>

\* status.summary()
CallSummary ==
  /\ summary' = Some(Summary(status))
  /\ UNCHANGED <<monitor, status, healthy, iteration, probes, run_vars, tui_vars,
               front_vars>>

\* The run variables while no deploy, rollback or connection takes place.
RunIdle ==
  /\ config = [key_path |-> "~/.ssh/id", password |-> None]
  /\ binary = "missing"
  /\ remote = [p \in RemotePaths |-> Absent]
  /\ service = "unknown"
  /\ pre = remote
  /\ op = "none"
  /\ pc = "idle"
  /\ max_retries = 0
  /\ RunInit

InitStatus ==
  /\ RunIdle
  /\ monitor = DefaultMonitor
  /\ status \in Statuses
  /\ healthy = Nil
  /\ summary = Nil
  /\ iteration = 0
  /\ probes = NoProbes
  /\ TuiIdle
  /\ FrontIdle

NextStatus == CallIsHealthy \/ CallSummary

\* is_healthy and summary applied to every ApplicationStatus.
SpecStatus == InitStatus /\ [][NextStatus]_vars

\* ------------------------------------------------------------- monitoring

\* check_ssh_connection: connect_with_retry(&ssh_config, 2)
MonitorRetries == 2

\* run_continuous: if iteration >= 10 { break; }
MonitorCycles == 10

\* What one call of connect_ssh can return for a configuration.
AttemptResults(cfg) == {ConnectSsh(cfg, env) : env \in ConnectEnvs}

\* connect_with_retry(cfg, n) as a function of what its calls of connect_ssh
\* return: Ok at the first "ok", else the last error.
ConnectWithRetry(results, n) ==
  IF \E i \in 1..n : results[i] = "ok" THEN [ok |-> TRUE, err |-> NoError]
  ELSE IF n = 0 THEN [ok |-> FALSE, err |-> Error("connection_failed", "", 0)]
  ELSE [ok |-> FALSE, err |-> Error(results[n], "", n)]

\* What check_ssh_connection can return.
SessionResults(cfg) ==
  {ConnectWithRetry(r, MonitorRetries) :
     r \in [1..MonitorRetries -> AttemptResults(cfg)]}

\* check_health_endpoint.  reached: send() returned a response; success:
\* its status is a success status; elapsed: the time it took (ms).
CheckHealthEndpoint(reached, success, elapsed) ==
  IF ~reached
    THEN [ok |-> FALSE, elapsed |-> 0, err |-> Error("health_unreachable", "", 0)]
  ELSE IF ~success
    THEN [ok |-> FALSE, elapsed |-> 0, err |-> Error("health_status", "", 0)]
  ELSE [ok |-> TRUE, elapsed |-> elapsed, err |-> NoError]

\* check_service_status: a session of its own (ssh), then the is-active
\* query (res): Ok(output.trim().to_string()).
CheckServiceStatus(ssh, res) ==
  IF ~ssh.ok THEN [ok |-> FALSE, out |-> <<>>]
  ELSE IF ~res.ok THEN [ok |-> FALSE, out |-> <<>>]
  ELSE [ok |-> TRUE, out |-> Trim(res.out)]

\* Result::ok()
OkOption(r) == IF r.ok THEN Some(r.out) ELSE Nil

CheckStatusConflated(endpoint, http, ssh, svc) ==
  LET s0 == DefaultStatus
      s1 == IF endpoint = Nil THEN s0
            ELSE IF http.ok
              THEN [s0 EXCEPT !.health_ok = TRUE,
                              !.response_time = Some(http.elapsed)]
              ELSE [s0 EXCEPT !.health_ok = FALSE,
                              !.last_error = Some(http.err)]
      s2 == IF ssh.ok
              THEN [s1 EXCEPT !.ssh_ok = TRUE, !.service_status = OkOption(svc)]
              ELSE [s1 EXCEPT !.ssh_ok = FALSE, !.health_ok = FALSE,
                              !.last_error =
                                 Some(Error("ssh_connection_failed",
                                            ssh.err.kind, 0))]
  IN [ok |-> TRUE, value |-> s2, err |-> NoError]

CheckStatusAssumingHealthy(endpoint, http, ssh, svc) ==
  LET s0 == DefaultStatus
      s1 == IF endpoint = Nil THEN [s0 EXCEPT !.health_ok = TRUE]
            ELSE IF http.ok
              THEN [s0 EXCEPT !.health_ok = TRUE,
                              !.response_time = Some(http.elapsed)]
              ELSE [s0 EXCEPT !.health_ok = FALSE,
                              !.last_error = Some(http.err)]
      s2 == IF ssh.ok
              THEN [s1 EXCEPT !.ssh_ok = TRUE, !.service_status = OkOption(svc)]
              ELSE [s1 EXCEPT !.ssh_ok = FALSE,
                              !.last_error =
                                 Some(Error("ssh_connection_failed",
                                            ssh.err.kind, 0))]
  IN [ok |-> TRUE, value |-> s2, err |-> NoError]

\* check_status.  endpoint: config.monitor.health_endpoint; http: what
\* check_health_endpoint returned; ssh: what check_ssh_connection returned;
\* svc: what check_service_status returned.  It always returns Ok(status).
CheckStatus(endpoint, http, ssh, svc) ==
  LET s0 == DefaultStatus
      s1 == IF endpoint = Nil THEN s0
            ELSE IF http.ok
              THEN [s0 EXCEPT !.health_ok = TRUE,
                              !.response_time = Some(http.elapsed)]
              ELSE [s0 EXCEPT !.health_ok = FALSE,
                              !.last_error = Some(http.err)]
      s2 == IF ssh.ok
              THEN [s1 EXCEPT !.ssh_ok = TRUE, !.service_status = OkOption(svc)]
              ELSE [s1 EXCEPT !.ssh_ok = FALSE,
                              !.last_error =
                                 Some(Error("ssh_connection_failed",
                                            ssh.err.kind, 0))]
  IN [ok |-> TRUE, value |-> s2, err |-> NoError]

\* What check_health_endpoint can return (50 ms for a response).
HealthResults ==
  {CheckHealthEndpoint(reached, success, 50) :
     reached \in BOOLEAN, success \in BOOLEAN}

\* What check_service_status can return for the service as it is.
ServiceResults ==
  {CheckServiceStatus(own, SystemctlIsActive(fault, exit, silent)) :
     own \in SessionResults(config), fault \in BOOLEAN,
     exit \in IsActiveExits, silent \in BOOLEAN}

\* What the probes met, for the record.
Probed(endpoint, http, ssh, checked) ==
  [http |-> IF endpoint = Nil THEN "none"
            ELSE IF http.ok THEN "ok" ELSE "failed",
   ssh |-> ssh.ok,
   returned |-> IF checked.ok THEN "Ok" ELSE "Err"]

LastCycleAfter(i) == i > MonitorCycles

\* run_continuous: if iteration >= 10 { break; }
LastCycle(i) == i >= MonitorCycles

\* What a step of monitoring leaves alone.
MonitorFrame ==
  UNCHANGED <<config, binary, remote, service, dry_run, skip_build, max_retries, attempt,
              last_error, auth, session, position, query, pre, uploaded,
              last1, last2, monitor, healthy, summary, tui_vars, front_vars>>

\* monitor_application(config, continuous, lines)
StartMonitor(continuous) ==
  /\ pc = "idle"
  /\ op' = "monitor"
  /\ pc' = IF continuous THEN "cycle" ELSE "once"
  /\ iteration' = 0
  /\ UNCHANGED <<waited, trace, result, status, probes>>
  /\ MonitorFrame

\* run_continuous, one turn of the loop up to the sleep: check_status()?,
\* display_status, and the break after the last cycle.
Cycle ==
  /\ op = "monitor" /\ pc = "cycle"
  /\ \E http \in HealthResults, ssh \in SessionResults(config),
        svc \in ServiceResults :
       LET checked == CheckStatus(monitor.health_endpoint, http, ssh, svc)
       IN /\ iteration' = iteration + 1
          /\ probes' = Probed(monitor.health_endpoint, http, ssh, checked)
          /\ IF ~checked.ok THEN
               /\ trace' = Append(trace, Local("check_status"))
               /\ Fail(checked.err)
               /\ UNCHANGED status
             ELSE
               /\ status' = checked.value
               /\ trace' = trace \o
                    <<Local("check_status"), Local("display_status")>>
               /\ IF LastCycle(iteration')
                    THEN /\ pc' = "done"
                         /\ result' = Ok("Continuous monitoring completed")
                    ELSE /\ pc' = "sleep"
                         /\ UNCHANGED result
  /\ UNCHANGED <<op, waited>>
  /\ MonitorFrame

\* run_continuous: sleep(Duration::from_secs(interval_secs)).await
MonitorSleep ==
  /\ op = "monitor" /\ pc = "sleep"
  /\ waited' = waited + monitor.interval_secs
  /\ trace' = Append(trace, Local("sleep"))
  /\ pc' = "cycle"
  /\ UNCHANGED <<op, result, status, iteration, probes>>
  /\ MonitorFrame

\* run_once: check_status()?, display_status, and display_logs(...)? when a
\* log path is configured (a session of its own, then `tail -n`).
Once ==
  /\ op = "monitor" /\ pc = "once"
  /\ \E http \in HealthResults, ssh \in SessionResults(config),
        svc \in ServiceResults, logs \in SessionResults(config),
        tail_fault \in BOOLEAN, tail_exit \in {0, 1} :
       LET checked == CheckStatus(monitor.health_endpoint, http, ssh, svc)
           tail == ExecuteCommand("tail", tail_fault, tail_exit, <<>>)
       IN /\ probes' = Probed(monitor.health_endpoint, http, ssh, checked)
          /\ IF ~checked.ok THEN
               /\ trace' = Append(trace, Local("check_status"))
               /\ Fail(checked.err)
               /\ UNCHANGED status
             ELSE
               /\ status' = checked.value
               /\ IF monitor.log_path = Nil THEN
                    /\ trace' = trace \o
                         <<Local("check_status"), Local("display_status")>>
                    /\ pc' = "done"
                    /\ result' = Ok("Monitoring check completed")
                  ELSE IF ~logs.ok THEN
                    /\ trace' = trace \o
                         <<Local("check_status"), Local("display_status")>>
                    /\ Fail(logs.err)
                  ELSE
                    /\ trace' = trace \o
                         <<Local("check_status"), Local("display_status"),
                           Cmd("tail")>>
                    /\ IF tail.ok
                         THEN /\ pc' = "done"
                              /\ result' = Ok("Monitoring check completed")
                         ELSE Fail(tail.err)
  /\ UNCHANGED <<op, waited, iteration>>
  /\ MonitorFrame

\* monitor_application returns to handle_command; its locals are gone.
MonitorReturn ==
  /\ op = "monitor" /\ pc = "done"
  /\ op' = "none"
  /\ pc' = "idle"
  /\ waited' = 0
  /\ trace' = <<>>
  /\ result' = NoResult
  /\ status' = DefaultStatus
  /\ iteration' = 0
  /\ probes' = NoProbes
  /\ MonitorFrame

MonitorConfigs ==
  [health_endpoint : {Nil, Some("http://host/health")},
   log_path : {Nil, Some("/var/log/app.log")},
   interval_secs : {10}]

InitMonitor ==
  /\ config \in Configs
  /\ binary = "missing"
  /\ remote = [p \in RemotePaths |-> Absent]
  /\ service \in ServiceStates
  /\ pre = remote
  /\ op = "none"
  /\ pc = "idle"
  /\ max_retries = 0
  /\ RunInit
  /\ monitor \in MonitorConfigs
  /\ status = DefaultStatus
  /\ healthy = Nil
  /\ summary = Nil
  /\ iteration = 0
  /\ probes = NoProbes
  /\ TuiIdle
  /\ FrontIdle

NextMonitor ==
  \/ \E continuous \in BOOLEAN : StartMonitor(continuous)
  \/ Cycle
  \/ MonitorSleep
  \/ Once
  \/ MonitorReturn

\* `rzen monitor`, once or continuously.
SpecMonitor == InitMonitor /\ [][NextMonitor]_vars

\* The same, run by the async runtime: a monitoring run that can take its
\* next step takes it (the probes time out, the sleep ends).
SpecMonitorFair ==
  SpecMonitor /\ WF_vars(Cycle) /\ WF_vars(MonitorSleep)

\* ---------------------------------------------------------- the interface

\* Tab::next, Tab::prev
TabNext(tab) ==
  CASE tab = "Build" -> "Deploy"
    [] tab = "Deploy" -> "Monitor"
    [] tab = "Monitor" -> "Config"
    [] tab = "Config" -> "Exit"
    [] tab = "Exit" -> "Build"

TabPrev(tab) ==
  CASE tab = "Build" -> "Exit"
    [] tab = "Deploy" -> "Build"
    [] tab = "Monitor" -> "Deploy"
    [] tab = "Config" -> "Monitor"
    [] tab = "Exit" -> "Config"

\* start_deploy_operation_async: steps
DeploySteps ==
  <<"Connecting to server...", "Creating remote directory...",
    "Uploading binary...", "Setting permissions...",
    "Creating systemd service...", "Starting service...">>

\* BackgroundMessage.  task and n say which task sent the message and as its
\* how-manieth; pct is in hundredths of a percent.
BuildProgress(t, n, i) ==
  [task |-> t, n |-> n, kind |-> "BuildProgress", pct |-> i * 100, log |-> i]
BuildComplete(t, n, res) ==
  [task |-> t, n |-> n, kind |-> "BuildComplete", result |-> res]
DeployProgress(t, n, i) ==
  [task |-> t, n |-> n, kind |-> "DeployProgress",
   pct |-> (i * 10000) \div Len(DeploySteps), step |-> DeploySteps[i], log |-> i]
DeployComplete(t, n, res) ==
  [task |-> t, n |-> n, kind |-> "DeployComplete", result |-> res]
MonitorUpdate(t, n, st, metrics) ==
  [task |-> t, n |-> n, kind |-> "MonitorUpdate", status |-> st,
   metrics |-> metrics]

\* get_metrics, from the status its own check_status returned.
GetMetrics(st) ==
  [uptime_percentage |-> IF IsHealthy(st) THEN 100 ELSE 0,
   average_response_time |-> st.response_time,
   total_requests |-> Nil,
   error_count |-> IF st.last_error # Nil THEN 1 ELSE 0]

\* The statuses check_status returns in the interface's monitor task: all
\* probes failed, or all succeeded.
TuiStatuses ==
  {CheckStatus(Some("http://host/health"), CheckHealthEndpoint(FALSE, FALSE, 0),
               [ok |-> FALSE, err |-> Error("tcp_failed", "", MonitorRetries)],
               [ok |-> FALSE, out |-> <<>>]).value,
   CheckStatus(Some("http://host/health"), CheckHealthEndpoint(TRUE, TRUE, 50),
               [ok |-> TRUE, err |-> NoError],
               [ok |-> TRUE, out |-> Active]).value}

\* App::set_status
SetStatus(a, message) == [a EXCEPT !.status_message = Some(message)]

\* handle_background_message
HandleSettingStatus(a, m) ==
  CASE m.kind = "BuildProgress" ->
         SetStatus([a EXCEPT !.build_state.progress = m.pct,
                             !.build_state.logs = Append(@, m.log)],
                   <<"Building">>)
    [] m.kind = "BuildComplete" ->
         LET b == [a EXCEPT !.build_state.is_building = FALSE,
                            !.build_state.progress = 10000]
         IN IF m.result.ok
              THEN SetStatus([b EXCEPT !.build_state.build_info =
                                          Some(m.result.value)],
                             <<"Build completed successfully">>)
              ELSE SetStatus(b, <<"Build failed", m.result.err.kind>>)
    [] m.kind = "DeployProgress" ->
         [a EXCEPT !.deploy_state.progress = m.pct,
                   !.deploy_state.current_step = m.step,
                   !.deploy_state.logs = Append(@, m.log)]
    [] m.kind = "DeployComplete" ->
         LET d == [a EXCEPT !.deploy_state.is_deploying = FALSE,
                            !.deploy_state.progress = 10000]
         IN IF m.result.ok
              THEN SetStatus(d, <<"Deployment completed successfully">>)
              ELSE SetStatus(d, <<"Deployment failed", m.result.err.kind>>)
    [] m.kind = "MonitorUpdate" ->
         [a EXCEPT !.monitor_state.status = Some(m.status),
                   !.monitor_state.metrics = m.metrics]

\* handle_background_message(app, message)
HandleBackgroundMessage(a, m) ==
  CASE m.kind = "BuildProgress" ->
         [a EXCEPT !.build_state.progress = m.pct,
                   !.build_state.logs = Append(@, m.log)]
    [] m.kind = "BuildComplete" ->
         LET b == [a EXCEPT !.build_state.is_building = FALSE,
                            !.build_state.progress = 10000]
         IN IF m.result.ok
              THEN SetStatus([b EXCEPT !.build_state.build_info =
                                          Some(m.result.value)],
                             <<"Build completed successfully">>)
              ELSE SetStatus(b, <<"Build failed", m.result.err.kind>>)
    [] m.kind = "DeployProgress" ->
         [a EXCEPT !.deploy_state.progress = m.pct,
                   !.deploy_state.current_step = m.step,
                   !.deploy_state.logs = Append(@, m.log)]
    [] m.kind = "DeployComplete" ->
         LET d == [a EXCEPT !.deploy_state.is_deploying = FALSE,
                            !.deploy_state.progress = 10000]
         IN IF m.result.ok
              THEN SetStatus(d, <<"Deployment completed successfully">>)
              ELSE SetStatus(d, <<"Deployment failed", m.result.err.kind>>)
    [] m.kind = "MonitorUpdate" ->
         [a EXCEPT !.monitor_state.status = Some(m.status),
                   !.monitor_state.metrics = m.metrics]

EnqueueFirst(q, m) == <<m>> \o q

\* The channel keeps the messages in the order of the sends.
EnqueueLatestOnly(q, m) == <<m>>

Enqueue(q, m) == Append(q, m)

\* The number of tasks spawned so far.
Spawned == Cardinality({t \in TaskIds : tasks[t].kind # "none"})

\* What no step of a background task touches.
TaskFrame == UNCHANGED <<app, rx_closed, render, events, pressed, folded,
                         lock_vars, run_vars, monitor_vars, front_vars>>

RECURSIVE SentUpTo(_)
SentUpTo(t) == IF t = 0 THEN 0 ELSE Len(sent[t]) + SentUpTo(t - 1)

\* The number of messages sent so far.
TotalSent == SentUpTo(MaxTasks)

\* tx.send(message).await with its result dropped (`let _ =`): the message
\* joins the queue when there is room (the send waits for room), and is
\* gone when the receiver is dropped.
Send(t, m) ==
  /\ TotalSent < MaxMessages
  /\ rx_closed \/ Len(queue) < ChannelCapacity
  /\ queue' = IF rx_closed THEN queue ELSE Enqueue(queue, m)
  /\ sent' = [sent EXCEPT ![t] = Append(@, m)]

\* The input-reading task's handling of one key, under the lock.  Keys
\* without an action are not shown.
HandleKey(key) ==
  /\ pressed < MaxKeys
  /\ pressed' = pressed + 1
  /\ CASE key = "q" ->
            \* Action::Quit: app.quit(); break
            /\ app' = [app EXCEPT !.should_quit = TRUE]
            /\ events' = "ended"
            /\ UNCHANGED tasks
       [] key = "right" ->
            \* App::next_tab
            /\ app' = IF app.current_tab = "Exit"
                        THEN [app EXCEPT !.should_quit = TRUE]
                        ELSE [app EXCEPT !.current_tab = TabNext(@)]
            /\ events' = "polling"
            /\ UNCHANGED tasks
       [] key = "left" ->
            /\ app' = [app EXCEPT !.current_tab = TabPrev(@)]
            /\ events' = "polling"
            /\ UNCHANGED tasks
       [] key \in {"b", "d", "m"} ->
            \* tokio::spawn(...)
            /\ Spawned < MaxTasks
            /\ tasks' = [tasks EXCEPT ![Spawned + 1] =
                 [kind |-> CASE key = "b" -> "build"
                             [] key = "d" -> "deploy"
                             [] key = "m" -> "monitor",
                  pc |-> "progress",
                  i |-> IF key = "d" THEN 1 ELSE 0,
                  failed |-> FALSE]]
            /\ events' = "polling"
            /\ UNCHANGED app
       [] key = "c" ->
            \* App::clear_status
            /\ app' = [app EXCEPT !.status_message = Nil]
            /\ events' = "polling"
            /\ UNCHANGED tasks
  /\ UNCHANGED <<queue, rx_closed, render, sent, folded, received, run_vars,
                 monitor_vars, front_vars>>

\* The input-reading task: one key read and handled, lock to unlock.
KeyPress(key) ==
  /\ events = "polling"
  /\ HandleKey(key)
  /\ UNCHANGED lock

RECURSIVE FoldAll(_, _)
FoldAll(a, q) ==
  IF q = <<>> THEN a ELSE FoldAll(HandleBackgroundMessage(a, Head(q)), Tail(q))

RECURSIVE FoldedAll(_, _)
FoldedAll(f, q) ==
  IF q = <<>> THEN f
  ELSE FoldedAll([f EXCEPT ![Head(q).task] = Append(@, Head(q).n)], Tail(q))

FrameDrainingAll ==
  /\ render = "running"
  /\ \E drawn \in BOOLEAN :
       IF app.should_quit \/ ~drawn THEN
         /\ render' = IF app.should_quit THEN "Ok" ELSE "Err"
         /\ rx_closed' = TRUE
         /\ queue' = <<>>
         /\ UNCHANGED <<app, folded>>
       ELSE
         /\ app' = FoldAll(app, queue)
         /\ queue' = <<>>
         /\ folded' = FoldedAll(folded, queue)
         /\ UNCHANGED <<rx_closed, render>>
  /\ UNCHANGED <<tasks, events, pressed, sent, lock_vars, run_vars, monitor_vars,
                 front_vars>>

\* run_app's render loop, one turn: the quit check, the draw, and at most
\* one message received and handled.  drawn: terminal.draw succeeded.
\* Leaving the loop ends run_app, and the receiver is dropped with what it
\* still holds.
Frame ==
  /\ render = "running"
  /\ \E drawn \in BOOLEAN :
       IF app.should_quit \/ ~drawn THEN
         /\ render' = IF app.should_quit THEN "Ok" ELSE "Err"
         /\ rx_closed' = TRUE
         /\ queue' = <<>>
         /\ UNCHANGED <<app, folded>>
       ELSE IF queue = <<>> THEN
         \* rx.try_recv() is Err(Empty)
         UNCHANGED <<app, queue, rx_closed, render, folded>>
       ELSE
         /\ app' = HandleBackgroundMessage(app, Head(queue))
         /\ queue' = Tail(queue)
         /\ folded' = [folded EXCEPT ![Head(queue).task] = Append(@, Head(queue).n)]
         /\ UNCHANGED <<rx_closed, render>>
  /\ UNCHANGED <<tasks, events, pressed, sent, lock_vars, run_vars, monitor_vars,
                 front_vars>>

\* start_build_operation_async, one turn of its loop: sleep, send.
BuildSendProgress(t) ==
  /\ tasks[t].kind = "build" /\ tasks[t].pc = "progress"
  /\ Send(t, BuildProgress(t, Len(sent[t]) + 1, tasks[t].i))
  /\ tasks' = [tasks EXCEPT ![t].i = @ + 1,
                            ![t].pc = IF tasks[t].i = MaxBuildPercent
                                        THEN "run" ELSE "progress"]
  /\ TaskFrame

ForwardsDeployOnly(kind) == kind = "deploy"

\* run_app's spawned wrappers: the build and the deploy wrapper send the
\* error their operation returned; the monitor wrapper drops it.
Forwards(kind) == kind \in {"build", "deploy"}

\* start_build_operation_async after its loop: build_project, get_build_info,
\* the send of BuildComplete(build_info), and `result?`.
\* built: build_project returned Ok; info: get_build_info returned Ok.
BuildRun(t) ==
  /\ tasks[t].kind = "build" /\ tasks[t].pc = "run"
  /\ \E built \in BOOLEAN, info \in BOOLEAN :
       /\ Send(t, BuildComplete(t, Len(sent[t]) + 1,
                    IF info THEN Ok("build_info")
                    ELSE Err(Error("build_info_failed", "", 0))))
       /\ tasks' = [tasks EXCEPT ![t].pc = IF built THEN "finished" ELSE "failed",
                                 ![t].failed = ~built]
  /\ TaskFrame

\* The wrapper of a task whose operation returned Err(e).
Forward(t) ==
  /\ tasks[t].pc = "failed"
  /\ IF Forwards(tasks[t].kind)
       THEN Send(t, IF tasks[t].kind = "build"
                      THEN BuildComplete(t, Len(sent[t]) + 1,
                                         Err(Error("build_failed", "", 0)))
                      ELSE DeployComplete(t, Len(sent[t]) + 1,
                                          Err(Error("deploy_failed", "", 0))))
       ELSE UNCHANGED <<queue, sent>>
  /\ tasks' = [tasks EXCEPT ![t].pc = "finished"]
  /\ TaskFrame

\* start_deploy_operation_async, one turn of its loop: sleep, send.
DeploySendProgress(t) ==
  /\ tasks[t].kind = "deploy" /\ tasks[t].pc = "progress"
  /\ Send(t, DeployProgress(t, Len(sent[t]) + 1, tasks[t].i))
  /\ tasks' = [tasks EXCEPT ![t].i = @ + 1,
                            ![t].pc = IF tasks[t].i = Len(DeploySteps)
                                        THEN "run" ELSE "progress"]
  /\ TaskFrame

\* start_deploy_operation_async after its loop: deploy_project(&config,
\* false, false, false), whose result (deployed: it is Ok) is sent, and
\* Ok(()).
DeployRun(t) ==
  /\ tasks[t].kind = "deploy" /\ tasks[t].pc = "run"
  /\ \E deployed \in BOOLEAN :
       /\ Send(t, DeployComplete(t, Len(sent[t]) + 1,
                    IF deployed THEN Ok("deployed")
                    ELSE Err(Error("deploy_failed", "", 0))))
       /\ tasks' = [tasks EXCEPT ![t].pc = "finished", ![t].failed = ~deployed]
  /\ TaskFrame

\* start_monitor_operation_async, one turn of its loop: check_status (always
\* Ok), get_metrics(...).ok(), send, sleep.
MonitorSend(t) ==
  /\ tasks[t].kind = "monitor" /\ tasks[t].pc = "progress"
  /\ tasks[t].i < MaxUpdates
  /\ \E st \in TuiStatuses, again \in TuiStatuses :
       Send(t, MonitorUpdate(t, Len(sent[t]) + 1, st, Some(GetMetrics(again))))
  /\ tasks' = [tasks EXCEPT ![t].i = @ + 1]
  /\ TaskFrame

\* The steps a task has left: it was spawned and has not returned.
Live(t) == tasks[t].pc \notin {"none", "finished", "cancelled"}

\* main returns once run_tui returned (#[tokio::main]): the runtime is
\* dropped, and with it every spawned task that has not returned, at the
\* await it is suspended at; nothing waits for a task (the JoinHandles of
\* tokio::spawn are dropped where they are made).  The input task is not
\* inside a lock section then: it has no await there.
Shutdown ==
  /\ render \in {"Ok", "Err"}
  /\ events # "locked"
  /\ events = "polling" \/ \E t \in TaskIds : Live(t)
  /\ tasks' = [t \in TaskIds |->
                IF Live(t) THEN [tasks[t] EXCEPT !.pc = "cancelled"]
                ELSE tasks[t]]
  /\ events' = "ended"
  /\ UNCHANGED <<app, queue, rx_closed, render, pressed, sent, folded,
                 lock_vars, run_vars, monitor_vars, front_vars>>

Keys == {"q", "right", "left", "b", "d", "m", "c"}

InitTui == RunIdle /\ MonitorIdle /\ TuiIdle /\ FrontIdle

NextTui ==
  \/ \E key \in Keys : KeyPress(key)
  \/ Frame
  \/ Shutdown
  \/ \E t \in TaskIds :
       \/ BuildSendProgress(t)
       \/ BuildRun(t)
       \/ Forward(t)
       \/ DeploySendProgress(t)
       \/ DeployRun(t)
       \/ MonitorSend(t)

\* The interface: the input task, the render loop and the background tasks,
\* in every interleaving.
SpecTui == InitTui /\ [][NextTui]_vars

\* ---------------------------------------------- the lock of the App

\* What a step of the render loop leaves alone.
RenderFrame ==
  UNCHANGED <<tasks, events, pressed, sent, run_vars, monitor_vars, front_vars>>

\* The input task read a key that has an action:
\* let mut app = event_app.lock().unwrap()
InputLock ==
  /\ events = "polling" /\ pressed < MaxKeys
  /\ lock = "none"
  /\ lock' = "input"
  /\ events' = "locked"
  /\ UNCHANGED <<app, queue, rx_closed, tasks, render, pressed, sent, folded,
                 received, run_vars, monitor_vars, front_vars>>

\* The match on the action under the lock; the guard is dropped at the end
\* of the `if let Some(action)` block, and at the break of Action::Quit.
LockedKeyPress(key) ==
  /\ events = "locked" /\ lock = "input"
  /\ HandleKey(key)
  /\ lock' = "none"

\* The render loop: let app = app.lock().unwrap(), in the block of the quit
\* check.
RenderLock ==
  /\ render = "running" /\ lock = "none"
  /\ lock' = "render"
  /\ render' = "check"
  /\ UNCHANGED <<app, queue, rx_closed, folded, received>>
  /\ RenderFrame

RenderCheckKeepingLock ==
  /\ render = "check" /\ lock = "render"
  /\ IF app.should_quit
       THEN /\ render' = "Ok"
            /\ rx_closed' = TRUE
            /\ queue' = <<>>
            /\ lock' = "none"
       ELSE /\ render' = "draw"
            /\ UNCHANGED <<rx_closed, queue, lock>>
  /\ UNCHANGED <<app, folded, received>>
  /\ RenderFrame

\* if app.should_quit { break; }, and the end of the block: the guard is
\* dropped either way.
RenderCheck ==
  /\ render = "check" /\ lock = "render"
  /\ lock' = "none"
  /\ IF app.should_quit
       THEN /\ render' = "Ok"
            /\ rx_closed' = TRUE
            /\ queue' = <<>>
       ELSE /\ render' = "draw"
            /\ UNCHANGED <<rx_closed, queue>>
  /\ UNCHANGED <<app, folded, received>>
  /\ RenderFrame

\* terminal.draw's closure: let app = app.lock().unwrap()
RenderLockDraw ==
  /\ render = "draw" /\ lock = "none"
  /\ lock' = "render"
  /\ render' = "ui"
  /\ UNCHANGED <<app, queue, rx_closed, folded, received>>
  /\ RenderFrame

\* ui(f, &app) and the end of the closure, then the write to the terminal
\* (drawn: it succeeded) and the `?`.
RenderUi ==
  /\ render = "ui" /\ lock = "render"
  /\ lock' = "none"
  /\ \E drawn \in BOOLEAN :
       IF drawn
         THEN /\ render' = "recv"
              /\ UNCHANGED <<rx_closed, queue>>
         ELSE /\ render' = "Err"
              /\ rx_closed' = TRUE
              /\ queue' = <<>>
  /\ UNCHANGED <<app, folded, received>>
  /\ RenderFrame

\* if let Ok(message) = rx.try_recv()
RenderRecv ==
  /\ render = "recv"
  /\ IF queue = <<>>
       THEN /\ render' = "running"
            /\ UNCHANGED <<queue, received>>
       ELSE /\ received' = Some(Head(queue))
            /\ queue' = Tail(queue)
            /\ render' = "fold"
  /\ UNCHANGED <<app, rx_closed, folded, lock>>
  /\ RenderFrame

\* let mut app = app.lock().unwrap(), with the message in hand
RenderLockFold ==
  /\ render = "fold" /\ lock = "none"
  /\ lock' = "render"
  /\ render' = "handle"
  /\ UNCHANGED <<app, queue, rx_closed, folded, received>>
  /\ RenderFrame

\* handle_background_message(&mut app, message), and the end of the block
RenderHandle ==
  /\ render = "handle" /\ lock = "render"
  /\ app' = HandleBackgroundMessage(app, received[1])
  /\ folded' = [folded EXCEPT ![received[1].task] = Append(@, received[1].n)]
  /\ received' = Nil
  /\ lock' = "none"
  /\ render' = "running"
  /\ UNCHANGED <<queue, rx_closed>>
  /\ RenderFrame

InitLock == InitTui

NextLock ==
  \/ InputLock
  \/ \E key \in Keys : LockedKeyPress(key)
  \/ RenderLock
  \/ RenderCheck
  \/ RenderLockDraw
  \/ RenderUi
  \/ RenderRecv
  \/ RenderLockFold
  \/ RenderHandle
  \/ Shutdown
  \/ \E t \in TaskIds :
       \/ BuildSendProgress(t)
       \/ BuildRun(t)
       \/ Forward(t)
       \/ DeploySendProgress(t)
       \/ DeployRun(t)
       \/ MonitorSend(t)

\* The interface with every lock section of run_app a step of its own.
SpecLock == InitLock /\ [][NextLock]_vars

\* ------------------------------------------------- remote_file_exists

\* The exit statuses of the probe's shell line: 0 (one of the two echoes
\* ran) or 127 (the remote shell could not run it).
ProbeExits == {0, 127}

\* remote_file_exists(&session, path), on its own: the probe command's
\* result is kept in query, what the function returned in result.
ProbeFile(path) ==
  /\ op = "probe" /\ pc = "probe"
  /\ \E fault \in BOOLEAN, exit \in ProbeExits :
       LET res == ExecuteCommand("test_file", fault, exit,
                                 TestFileOutput(remote[path] # Absent))
       IN /\ query' = res
          /\ result' = Ok(IF RemoteFileExists(res) THEN "true" ELSE "false")
  /\ trace' = <<Cmd("test_file"), Local(path)>>
  /\ pc' = "done"
  /\ UNCHANGED <<remote, service, position>>
  /\ StepFrame

\* The caller drops the answer; another probe can follow.
ProbeReturn ==
  /\ op = "probe" /\ pc = "done"
  /\ pc' = "probe"
  /\ trace' = <<>>
  /\ result' = NoResult
  /\ query' = NoQuery
  /\ UNCHANGED <<remote, service, position>>
  /\ StepFrame

InitProbe ==
  /\ config \in Configs
  /\ binary = "missing"
  /\ remote \in InitialRemotes
  /\ service = "unknown"
  /\ pre = remote
  /\ op = "probe"
  /\ pc = "probe"
  /\ max_retries = 0
  /\ RunInit
  /\ BesideRunIdle

NextProbe == (\E path \in RemotePaths : ProbeFile(path)) \/ ProbeReturn

\* The existence probe for every file of every remote host.
SpecProbe == InitProbe /\ [][NextProbe]_vars

\* ------------------------------------------------------- the command line

\* The largest value of a u8.
MaxU8 == 255

\* LogLevel::from_number(level)
FromNumber(level) ==
  CASE level = 0 -> "Error"
    [] level = 1 -> "Error"
    [] level = 2 -> "Warn"
    [] level = 3 -> "Info"
    [] level = 4 -> "Debug"
    [] level = 5 -> "Trace"
    [] OTHER -> "Info"

\* LogLevel::as_filter(&self)
AsFilter(l) ==
  CASE l = "Error" -> "error"
    [] l = "Warn" -> "warn"
    [] l = "Info" -> "info"
    [] l = "Debug" -> "debug"
    [] l = "Trace" -> "trace"

\* Cli::validate(&self)
CliValidate(level) ==
  IF level > 5 THEN Err(Error("Log level must be between 0 and 5", "", 0))
  ELSE Ok("unit")

\* cli.log_filter()
CallLogFilter ==
  /\ log_filter = Nil
  /\ log_filter' = Some(AsFilter(FromNumber(log_level)))
  /\ UNCHANGED <<log_level, cli_valid, file_vars, run_vars, monitor_vars, tui_vars>>

\* cli.validate()
CallCliValidate ==
  /\ cli_valid = Nil
  /\ cli_valid' = Some(CliValidate(log_level))
  /\ UNCHANGED <<log_level, log_filter, file_vars, run_vars, monitor_vars, tui_vars>>

InitCli ==
  /\ RunIdle /\ MonitorIdle /\ TuiIdle /\ FileIdle
  /\ log_level \in 0..MaxU8
  /\ log_filter = Nil
  /\ cli_valid = Nil

NextCli == CallLogFilter \/ CallCliValidate

\* log_filter and validate applied to every --log-level.
SpecCli == InitCli /\ [][NextCli]_vars

\* -------------------------------------------------- the configuration file

\* The characters a supplied name or host is made of: a letter, a space, and
\* the two characters a TOML basic string escapes.
NameChars == {"a", " ", "\"", "\\"}

\* The strings of at most MaxNameLen characters.
Names == UNION {[1..n -> NameChars] : n \in 0..MaxNameLen}

DefaultName == <<"my-rust-app">>
DefaultHost == <<"your-vps.example.com">>

\* The Config that init_configuration builds around a name and a host;
\* create_default's is the one for the default name and host, but for its
\* deploy_path.
ConfigFor(name, host, deploy_path) ==
  [path |-> <<".">>,
   name |-> name,
   build_mode |-> <<"release">>,
   target |-> <<"vps">>,
   vps_host |-> host,
   vps_user |-> <<"deploy">>,
   vps_key_path |-> Some(<<"~/.ssh/id_rsa">>),
   vps_password |-> Nil,
   deploy_path |-> deploy_path,
   service_name |-> Some(name \o <<".service">>),
   ssh_port |-> 22,
   health_endpoint |-> Some(<<"http://", "your-vps.example.com:8080/health">>),
   log_path |-> Some(<<"/var/log/my-rust-app.log">>),
   interval_secs |-> 10,
   health_timeout_secs |-> 5]

\* A TOML basic string's escapes: a backslash before a quote or a backslash.
RECURSIVE Escape(_)
Escape(s) ==
  IF s = <<>> THEN <<>>
  ELSE (IF Head(s) \in {"\"", "\\"} THEN <<"\\", Head(s)>> ELSE <<Head(s)>>)
         \o Escape(Tail(s))

RECURSIVE Unescape(_)
Unescape(s) ==
  IF s = <<>> THEN <<>>
  ELSE IF Head(s) = "\\" /\ Len(s) >= 2
    THEN <<s[2]>> \o Unescape(Tail(Tail(s)))
    ELSE <<Head(s)>> \o Unescape(Tail(s))

\* An integer's decimal digits, and back.
RECURSIVE Digits(_)
Digits(n) == IF n < 10 THEN <<n>> ELSE Digits(n \div 10) \o <<n % 10>>

RECURSIVE ParseInt(_)
ParseInt(d) ==
  IF d = <<>> THEN 0 ELSE 10 * ParseInt(SubSeq(d, 1, Len(d) - 1)) + d[Len(d)]

StrLine(key, s) == <<[key |-> key, text |-> <<"\"">> \o Escape(s) \o <<"\"">>]>>
IntLine(key, n) == <<[key |-> key, text |-> Digits(n)]>>
\* A None field is left out of the file.
OptLine(key, o) == IF o = Nil THEN <<>> ELSE StrLine(key, o[1])

\* toml::to_string_pretty(&config): one `key = value` line per field that
\* has a value, under its table.
ToToml(c) ==
  StrLine("project.path", c.path) \o StrLine("project.name", c.name)
  \o StrLine("project.build_mode", c.build_mode)
  \o StrLine("deploy.target", c.target)
  \o StrLine("deploy.vps_host", c.vps_host)
  \o StrLine("deploy.vps_user", c.vps_user)
  \o OptLine("deploy.vps_key_path", c.vps_key_path)
  \o OptLine("deploy.vps_password", c.vps_password)
  \o StrLine("deploy.deploy_path", c.deploy_path)
  \o OptLine("deploy.service_name", c.service_name)
  \o IntLine("deploy.ssh_port", c.ssh_port)
  \o OptLine("monitor.health_endpoint", c.health_endpoint)
  \o OptLine("monitor.log_path", c.log_path)
  \o IntLine("monitor.interval_secs", c.interval_secs)
  \o IntLine("monitor.health_timeout_secs", c.health_timeout_secs)

Lookup(f, key) == SelectSeq(f, LAMBDA l : l.key = key)
Has(f, key) == Lookup(f, key) # <<>>
Unquote(text) == Unescape(SubSeq(text, 2, Len(text) - 1))
StrOf(f, key) == Unquote(Lookup(f, key)[1].text)
StrOr(f, key, default) == IF Has(f, key) THEN StrOf(f, key) ELSE default
OptOf(f, key) == IF Has(f, key) THEN Some(StrOf(f, key)) ELSE Nil
IntOr(f, key, default) ==
  IF Has(f, key) THEN ParseInt(Lookup(f, key)[1].text) ELSE default

\* The fields of Config without Option and without a serde default.
RequiredKeys == {"project.name", "deploy.vps_host", "deploy.vps_user"}

\* toml::from_str::<Config>(&contents), where every required field is there.
FromToml(f) ==
  [path |-> StrOr(f, "project.path", <<".">>),
   name |-> StrOf(f, "project.name"),
   build_mode |-> StrOr(f, "project.build_mode", <<"release">>),
   target |-> StrOr(f, "deploy.target", <<"vps">>),
   vps_host |-> StrOf(f, "deploy.vps_host"),
   vps_user |-> StrOf(f, "deploy.vps_user"),
   vps_key_path |-> OptOf(f, "deploy.vps_key_path"),
   vps_password |-> OptOf(f, "deploy.vps_password"),
   deploy_path |-> StrOr(f, "deploy.deploy_path", <<"/opt/rzen-app">>),
   service_name |-> OptOf(f, "deploy.service_name"),
   ssh_port |-> IntOr(f, "deploy.ssh_port", 22),
   health_endpoint |-> OptOf(f, "monitor.health_endpoint"),
   log_path |-> OptOf(f, "monitor.log_path"),
   interval_secs |-> IntOr(f, "monitor.interval_secs", 10),
   health_timeout_secs |-> IntOr(f, "monitor.health_timeout_secs", 5)]

IsBlank(s) == Trim(s) = <<>>

\* Config::validate(&self): "ok", or the message of its first failed check.
ConfigValidate(c) ==
  IF IsBlank(c.name) THEN "Project name cannot be empty"
  ELSE IF c.build_mode \notin {<<"debug">>, <<"release">>}
    THEN "Build mode must be 'debug' or 'release'"
  ELSE IF IsBlank(c.vps_host) THEN "VPS host cannot be empty"
  ELSE IF IsBlank(c.vps_user) THEN "VPS user cannot be empty"
  ELSE IF c.vps_key_path = Nil /\ c.vps_password = Nil
    THEN "Either SSH key path or password must be provided"
  ELSE IF c.vps_key_path # Nil /\ IsBlank(c.vps_key_path[1])
    THEN "SSH key path cannot be empty"
  ELSE IF c.health_endpoint # Nil /\ IsBlank(c.health_endpoint[1])
    THEN "Health endpoint URL cannot be empty"
  ELSE IF c.health_endpoint # Nil
          /\ Head(c.health_endpoint[1]) \notin {"http://", "https://"}
    THEN "Health endpoint must be a valid HTTP/HTTPS URL"
  ELSE IF c.interval_secs = 0
    THEN "Monitor interval must be greater than 0 seconds"
  ELSE IF c.health_timeout_secs = 0
    THEN "Health timeout must be greater than 0 seconds"
  ELSE "ok"

\* Config::from_file(path) on a file that exists.
FromFile(f) ==
  IF \E k \in RequiredKeys : ~Has(f, k)
    THEN Err(Error("Failed to parse TOML config file", "", 0))
  ELSE IF ConfigValidate(FromToml(f)) # "ok"
    THEN Err(Error(ConfigValidate(FromToml(f)), "", 0))
  ELSE Ok(FromToml(f))

\* What no step on the configuration file touches.
FileFrame == UNCHANGED <<supplied, cli_vars, run_vars, monitor_vars, tui_vars>>

\* Config::create_default(path)
CreateDefault ==
  /\ file = Nil
  /\ file' = Some(ToToml(ConfigFor(DefaultName, DefaultHost, <<"/opt/rzen-app">>)))
  /\ wrote' = "create_default"
  /\ UNCHANGED loaded
  /\ FileFrame

UnwrapOr(o, default) == IF o = Nil THEN default ELSE o[1]

\* init_configuration(path, name, host)
InitConfiguration ==
  /\ file = Nil
  /\ file' =
       IF supplied.name # Nil \/ supplied.host # Nil
         THEN Some(ToToml(ConfigFor(UnwrapOr(supplied.name, DefaultName),
                                    UnwrapOr(supplied.host, DefaultHost),
                                    <<"/opt/my-rust-app">>)))
         ELSE Some(ToToml(ConfigFor(DefaultName, DefaultHost, <<"/opt/rzen-app">>)))
  /\ wrote' = "init_configuration"
  /\ UNCHANGED loaded
  /\ FileFrame

\* Config::from_file(path) on the file written.
LoadFile ==
  /\ file # Nil /\ loaded = Nil
  /\ loaded' = Some(FromFile(file[1]))
  /\ UNCHANGED <<wrote, file>>
  /\ FileFrame

InitFile ==
  /\ RunIdle /\ MonitorIdle /\ TuiIdle /\ CliIdle
  /\ supplied \in [name : {Nil} \cup {Some(n) : n \in Names},
                   host : {Nil} \cup {Some(h) : h \in Names}]
  /\ wrote = "none"
  /\ file = Nil
  /\ loaded = Nil

NextFile == CreateDefault \/ InitConfiguration \/ LoadFile

\* A configuration file written for every supplied name and host, then
\* loaded.
SpecFile == InitFile /\ [][NextFile]_vars

\* ------------------------------------------------ check_deployment_status

\* str::split_whitespace on an output given as a sequence of tokens: the
\* fields are the longest runs of tokens that are not white space.
RECURSIVE FieldLen(_)
FieldLen(s) ==
  IF s = <<>> \/ Head(s) \in WhiteSpace THEN 0 ELSE 1 + FieldLen(Tail(s))

RECURSIVE SplitWhitespace(_)
SplitWhitespace(s) ==
  LET t == TrimStart(s) IN
  IF t = <<>> THEN <<>>
  ELSE <<SubSeq(t, 1, FieldLen(t))>>
         \o SplitWhitespace(SubSeq(t, FieldLen(t) + 1, Len(t)))

\* The fields of a line of `ls -lh <binary>`, and the output made of the
\* first n of them (a host whose ls, or whose shell, prints otherwise).
LsFields ==
  <<"-rwxr-xr-x", "1", "root", "root", "1.2M", "Jan", "1", "12:00",
    "deploy_path/name">>

LsField(i) == IF i <= Len(LsFields) THEN LsFields[i] ELSE "more"

RECURSIVE LsOutput(_)
LsOutput(n) ==
  IF n = 0 THEN <<"\n">>
  ELSE IF n = 1 THEN <<LsField(1), "\n">>
  ELSE SubSeq(LsOutput(n - 1), 1, Len(LsOutput(n - 1)) - 1)
         \o <<" ", LsField(n), "\n">>

\* What `stat -c %Y <unit file>` prints: the seconds of the modification
\* time, or something that is not a number.
StatOutputs == {<<"1", "7", "\n">>, <<"?", "\n">>}

\* output.trim().parse::<i64>()
DecimalDigits == {"0", "1", "2", "3", "4", "5", "6", "7", "8", "9"}
IsNumber(s) == s # <<>> /\ \A i \in DOMAIN s : s[i] \in DecimalDigits

\* DeploymentStatus of a host that could not be reached.
NoDeployment ==
  [service_active |-> FALSE, last_deployment |-> Nil, version |-> Nil]

\* Ok((output, _)) => output.trim() == "active", Err(_) => false
ServiceActive(res) == IF res.ok THEN Trim(res.out) = Active ELSE FALSE

\* Ok((output, _)) => the formatted time when the output parses, else None;
\* Err(_) => None
LastDeployment(res) ==
  IF res.ok /\ IsNumber(Trim(res.out))
    THEN Some(<<"UTC">> \o Trim(res.out))
    ELSE Nil

\* parts[k] of a Vec: a panic when k is not below its length.
InBounds(parts, k) == k < Len(parts)
Index(parts, k) == parts[k + 1]

\* The version field: if parts.len() >= 5 { Some(format!("Size: {},
\* Modified: {}", parts[4], parts[5])) } else { Some("Version info
\* unavailable") }, Err(_) => None.  panic: an index was out of bounds.
Version(res) ==
  IF ~res.ok THEN [panic |-> FALSE, value |-> Nil]
  ELSE LET parts == SplitWhitespace(res.out) IN
       IF Len(parts) >= 5 THEN
         IF InBounds(parts, 4) /\ InBounds(parts, 5)
           THEN [panic |-> FALSE,
                 value |-> Some(<<"Size", Index(parts, 4),
                                  "Modified", Index(parts, 5)>>)]
           ELSE [panic |-> TRUE, value |-> Nil]
       ELSE [panic |-> FALSE, value |-> Some(<<"Version info unavailable">>)]

\* What connect_with_retry(&ssh_config, 3) can return.
StatusSessions(cfg) ==
  {ConnectWithRetry(r, DeployRetries) :
     r \in [1..DeployRetries -> AttemptResults(cfg)]}

\* `rzen status`: check_deployment_status(&config)
StartStatus ==
  /\ Begin("status", DeployRetries)
  /\ pc' = "st_connect"
  /\ trace' = <<>>
  /\ result' = NoResult
  /\ UNCHANGED <<binary, dry_run, skip_build>>

\* connect_with_retry(&ssh_config, 3): Err(_) => return Ok(DeploymentStatus
\* { service_active: false, last_deployment: None, version: None })
StatusConnect ==
  /\ op = "status" /\ pc = "st_connect"
  /\ \E ssh \in StatusSessions(config) :
       IF ssh.ok THEN
         /\ session' = TRUE
         /\ pc' = "st_query"
         /\ UNCHANGED result
       ELSE
         /\ pc' = "done"
         /\ result' = Ok(NoDeployment)
         /\ UNCHANGED session
  /\ trace' = Append(trace, Attempt)
  /\ UNCHANGED <<config, binary, remote, service, op, dry_run, skip_build,
                 max_retries, attempt, waited, last_error, auth, position,
                 query, pre, uploaded, last1, last2, beside_run>>

\* The three queries (is-active, stat of the unit file, ls -lh of the
\* binary) and the return of the status made of their answers.  fields:
\* the number of fields the host's ls prints.
StatusQuery ==
  /\ op = "status" /\ pc = "st_query"
  /\ \E f1 \in BOOLEAN, exit \in IsActiveExits, silent \in BOOLEAN,
        f2 \in BOOLEAN, stat \in StatOutputs,
        f3 \in BOOLEAN, fields \in 0..MaxFields :
       LET active == SystemctlIsActive(f1, exit, silent)
           mtime == ExecuteCommand("stat", f2,
                      IF remote[ServiceFile] = Absent THEN 1 ELSE 0, stat)
           ls == ExecuteCommand("ls", f3,
                   IF remote[RemoteBinaryPath] = Absent THEN 2 ELSE 0,
                   LsOutput(fields))
           version == Version(ls)
       IN /\ query' = [ok |-> ls.ok, out |-> ls.out]
          /\ IF version.panic THEN
               /\ pc' = "panicked"
               /\ UNCHANGED result
             ELSE
               /\ pc' = "done"
               /\ result' = Ok([service_active |-> ServiceActive(active),
                                last_deployment |-> LastDeployment(mtime),
                                version |-> version.value])
  /\ trace' = trace \o <<Cmd("is_active"), Cmd("stat"), Cmd("ls")>>
  /\ UNCHANGED <<remote, service, position>>
  /\ StepFrame

\* handle_command prints the status and returns.
StatusReturn ==
  /\ op = "status" /\ pc = "done"
  /\ op' = "none"
  /\ pc' = "idle"
  /\ max_retries' = 0
  /\ session' = FALSE
  /\ trace' = <<>>
  /\ result' = NoResult
  /\ query' = NoQuery
  /\ UNCHANGED <<config, binary, remote, service, dry_run, skip_build,
                 attempt, waited, last_error, auth, position, pre, uploaded,
                 last1, last2, beside_run>>

NextDeployStatus == StartStatus \/ StatusConnect \/ StatusQuery \/ StatusReturn

\* The status query on every host, with every answer of its commands.
SpecDeployStatus == Init /\ [][NextDeployStatus]_vars

\* ------------------------------------------------------------ the claims

\* The remote commands and connection attempts of the run, in order.
Issued == SelectSeq(trace, LAMBDA e : e.kind \in {"cmd", "connect"})

HasCmd(name) == \E i \in DOMAIN trace : trace[i] = Cmd(name)
HasLocal(name) == \E i \in DOMAIN trace : trace[i] = Local(name)
Attempts == Cardinality({i \in DOMAIN trace : trace[i].kind = "connect"})

ConnectionErrors == {"tcp_failed", "handshake_failed", "auth_failed"}

\* C1: in a deploy that found a binary at the target path when it started,
\* right after the upload stage the backup path holds the bytes the target
\* path held before the run.
C1_BackupAfterUpload ==
  (op = "deploy" /\ pc = "chmod" /\ pre[RemoteBinaryPath] # Absent)
    => remote[BackupBinaryPath] = pre[RemoteBinaryPath]

\* C2: once the upload stage of a deploy succeeded, the target path
\* <deploy_path>/<binary_name> holds the bytes of the local binary.
C2_UploadWritesTarget ==
  (op = "deploy" /\ pc = "chmod") => remote[RemoteBinaryPath] = binary

\* Errors that come from outside the pipeline: the network, the channel, the
\* transfer, the local build and its prerequisites, and a service that does
\* not come up.
ExternalFailure(e) ==
  \/ e.kind \in ConnectionErrors
  \/ e.kind \in {"channel_error", "transfer_failed", "build_failed",
                 "binary_not_found", "binary_empty", "auth_not_configured",
                 "service_failed_to_start"}
  \/ e.kind = "command_failed" /\ e.cmd = "is_active"

\* C3: a deploy to a fresh host (no binary, no backup) that nothing outside
\* the pipeline makes fail ends with a successful result, no backup file, the
\* unit file installed and the service active.
C3_FreshHostDeploy ==
  (/\ op = "deploy" /\ ~dry_run /\ pc = "done"
   /\ pre[RemoteBinaryPath] = Absent /\ pre[BackupBinaryPath] = Absent
   /\ ~ExternalFailure(result.err))
    => /\ result.ok
       /\ remote[BackupBinaryPath] = Absent
       /\ remote[ServiceFile] = UnitText
       /\ service = "active"

\* C4: after two successive successful deploys of B1 then B2 the backup
\* holds B1, and a successful rollback run next leaves the live binary B1.
C4_TwoDeploysThenRollback ==
  /\ (/\ op = "deploy" /\ pc = "done" /\ result.ok /\ uploaded # None
      /\ last1.op = "deploy" /\ last1.ok /\ last1.bin # None)
       => remote[BackupBinaryPath] = last1.bin
  /\ (/\ op = "rollback" /\ pc = "done" /\ result.ok
      /\ last1.op = "deploy" /\ last1.ok /\ last2 # None)
       => remote[RemoteBinaryPath] = last2

\* C5: a rollback (once its session is open) on a target without a backup
\* file fails with the 'no backup' error and copies nothing; on a target with
\* a backup file it succeeds exactly when the service is then reported
\* active, and the live binary then holds the backup's bytes.
C5_Rollback ==
  op = "rollback" =>
    /\ pre[BackupBinaryPath] = Absent =>
         /\ ~HasCmd("cp_restore")
         /\ remote = pre
         /\ ~result.ok
         /\ (pc = "done" /\ session) => result = Err(Error("no_backup", "", 0))
    /\ (pre[BackupBinaryPath] # Absent /\ pc = "done") =>
         /\ result.ok <=> (query.ok /\ Trim(query.out) = <<"active">>)
         /\ result.ok =>
              /\ remote[RemoteBinaryPath] = remote[BackupBinaryPath]
              /\ remote[BackupBinaryPath] = pre[BackupBinaryPath]

C5_Witness ==
  /\ op = "rollback" /\ pc = "done" /\ result.ok
  /\ pre[BackupBinaryPath] # Absent
  /\ pre[RemoteBinaryPath] # pre[BackupBinaryPath]
  /\ remote[RemoteBinaryPath] = pre[BackupBinaryPath]

\* C6: no step of a rollback changes the backup file, and a rollback run
\* right after a successful rollback leaves the live binary as that one left
\* it.
C6_BackupKept ==
  [][/\ op = "rollback" => remote'[BackupBinaryPath] = remote[BackupBinaryPath]
     /\ (op' = "rollback" /\ last1'.op = "rollback" /\ last1'.ok)
          => remote'[RemoteBinaryPath] = pre'[RemoteBinaryPath]]_vars

C6_Witness ==
  /\ op = "rollback" /\ pc = "done" /\ result.ok
  /\ last1.op = "rollback" /\ last1.ok
  /\ remote[BackupBinaryPath] # Absent

\* The seconds slept after the first n failed attempts.
RECURSIVE TotalWait(_)
TotalWait(n) == IF n <= 0 THEN 0 ELSE TotalWait(n - 1) + Pow2(n - 1)

\* C7: connect with max_retries = N >= 1 whose attempts all fail makes
\* exactly N attempts, has slept 2^(i-1) seconds after each failed attempt
\* i < N and nothing after attempt N (2^(N-1) - 1 seconds in all), and
\* returns a connection error.
C7_ExhaustedRetries ==
  (op = "connect" /\ max_retries >= 1) =>
    /\ (pc = "connect" /\ attempt <= max_retries) =>
         /\ Attempts = attempt - 1
         /\ waited = TotalWait(attempt - 1)
    /\ (pc = "done" /\ ~result.ok) =>
         /\ Attempts = max_retries
         /\ waited = TotalWait(max_retries - 1)
         /\ waited = Pow2(max_retries - 1) - 1
         /\ result.err.kind \in ConnectionErrors

C7_Witness ==
  /\ op = "connect" /\ pc = "done" /\ ~result.ok
  /\ max_retries = 4 /\ Attempts = 4 /\ waited = 7

\* C8: start_service succeeds if and only if the state query issued after
\* the start command returned text that is, its surrounding whitespace
\* aside, exactly "active"; any other text, the empty one included, fails
\* the start although stop, enable and start went through.
C8_StartIffActive ==
  (op = "deploy" /\ ~dry_run /\ pc = "done") =>
    /\ result.ok <=> (query.ok /\ Trim(query.out) = <<"active">>)
    /\ query # NoQuery => (HasCmd("enable") /\ HasCmd("start")
                             /\ Issued[Len(Issued)] = Cmd("is_active"))

C8_Witness ==
  /\ op = "deploy" /\ pc = "done" /\ ~result.ok
  /\ HasCmd("is_active") /\ query.ok /\ query.out = <<>>
  /\ result.err.kind = "service_failed_to_start"

\* The place of a command in the pipeline, and the pipeline step (the unit
\* of progress.inc) it belongs to.
Rank(e) ==
  CASE e.name = "connect_ssh" -> 1
    [] e.name = "mkdir" -> 2
    [] e.name = "test_binary" -> 3
    [] e.name = "cp_backup" -> 4
    [] e.name = "scp" -> 5
    [] e.name = "chmod" -> 6
    [] e.name = "cat_unit" -> 7
    [] e.name = "mv_unit" -> 8
    [] e.name = "daemon_reload" -> 9
    [] e.name = "stop" -> 10
    [] e.name = "enable" -> 11
    [] e.name = "start" -> 12
    [] e.name = "is_active" -> 13

PipelineStep(e) ==
  CASE Rank(e) = 1 -> 1
    [] Rank(e) = 2 -> 2
    [] Rank(e) \in 3..5 -> 3
    [] Rank(e) = 6 -> 4
    [] Rank(e) \in 7..9 -> 5
    [] Rank(e) \in 10..13 -> 6

\* C9: the deploy pipeline issues its commands in the order connect,
\* directory, backup-if-exists, upload, permission, unit, start+verify; a
\* command is issued only when every earlier step has succeeded; the command
\* that fails is the last one issued and its error is the result; only
\* connection attempts are repeated.
C9_StageOrder ==
  op = "deploy" =>
    /\ \A i, j \in DOMAIN Issued :
         i < j => \/ Rank(Issued[i]) < Rank(Issued[j])
                  \/ Issued[i] = Attempt /\ Issued[j] = Attempt
    /\ Attempts <= DeployRetries
    /\ Issued # <<>> => PipelineStep(Issued[Len(Issued)]) <= position + 1
    /\ HasCmd("scp") =>
         (HasCmd("test_binary")
            /\ (HasCmd("cp_backup") => remote[BackupBinaryPath] # Absent))
    /\ result # NoResult => pc = "done"
    /\ (pc = "done" /\ result.err.kind \in
          {"channel_error", "command_failed", "transfer_failed"})
         => Issued[Len(Issued)] = Cmd(result.err.cmd)
    /\ (pc = "done" /\ result.err.kind \in ConnectionErrors)
         => Issued[Len(Issued)] = Attempt /\ Attempts = DeployRetries

C9_Witness ==
  /\ op = "deploy" /\ pc = "done"
  /\ result.err = Error("channel_error", "mv_unit", 0)
  /\ Attempts = 2
  /\ HasCmd("cp_backup")

\* C10: a dry-run deploy returns a success result at once, for every
\* configuration and local binary, without validating, building, connecting
\* or changing anything on the remote host.
C10_DryRun ==
  [][(op' = "deploy" /\ dry_run') =>
       /\ pc' = "done"
       /\ result' = Ok("dry_run")
       /\ trace' = <<Local("simulate")>>
       /\ ~session'
       /\ remote' = remote /\ service' = service /\ binary' = binary]_vars

C10_Witness ==
  /\ op = "deploy" /\ dry_run /\ pc = "done" /\ result.ok
  /\ binary = "missing"
  /\ config.key_path = None /\ config.password = None

\* The progress messages of the run, in order.
ProgressEvents == SelectSeq(trace, LAMBDA e : e.kind = "progress")

\* What validate_deployment_prerequisites refuses.
BadPrerequisites ==
  \/ binary \in {"missing", "empty"}
  \/ (config.key_path = None /\ config.password = None)

\* C11: a deploy that is not a dry run and whose local binary is missing or
\* empty, or whose configuration has neither a key path nor a password, ends
\* with an error before any connection attempt or remote command, the remote
\* host being as it was.
C11_PrerequisitesFirst ==
  (op = "deploy" /\ ~dry_run /\ BadPrerequisites) =>
     /\ pc = "done"
     /\ ~result.ok
     /\ result.err.kind \in
          {"binary_not_found", "binary_empty", "auth_not_configured"}
     /\ trace = <<Local("validate")>>
     /\ Attempts = 0
     /\ ~session
     /\ remote = pre

C11_Witness ==
  /\ op = "deploy" /\ ~dry_run /\ pc = "done"
  /\ binary \in LocalBinaries
  /\ config.key_path = None /\ config.password = None
  /\ result.err.kind = "auth_not_configured"
  /\ pre[RemoteBinaryPath] # Absent

\* C18: a deploy that ran all its stages emitted one progress message per
\* stage of an 8-stage pipeline, the i-th with fraction i/8 x 100 (in
\* hundredths of a percent: i * 10000 / 8).
C18_ProgressFractions ==
  (op = "deploy" /\ ~dry_run /\ pc = "done" /\ result.ok) =>
     /\ Len(ProgressEvents) = 8
     /\ \A i \in DOMAIN ProgressEvents :
          ProgressEvents[i].pct = (i * 10000) \div 8

\* The status with one of the three conditions of health flipped.
Flipped(s) ==
  {[s EXCEPT !.health_ok = ~s.health_ok], [s EXCEPT !.ssh_ok = ~s.ssh_ok]}
    \cup {[s EXCEPT !.service_status = t] :
            t \in ({Nil} \cup {Some(x) : x \in ServiceTexts})
                    \ {s.service_status}}

\* C12: is_healthy() is true exactly when health_ok and ssh_ok are true and
\* service_status is Some("active"); a healthy status with any one of the
\* three flipped is not healthy; summary() is "All systems operational"
\* exactly when is_healthy() is true.
C12_IsHealthy ==
  /\ healthy # Nil =>
       /\ healthy[1] <=> (/\ status.health_ok = TRUE
                          /\ status.ssh_ok = TRUE
                          /\ status.service_status # Nil
                          /\ status.service_status[1] = <<"active">>)
       /\ healthy[1] => \A f \in Flipped(status) : ~IsHealthy(f)
  /\ (healthy # Nil /\ summary # Nil) =>
       (summary[1].text = "All systems operational" <=> healthy[1])

C12_Witness ==
  /\ healthy = Some(TRUE)
  /\ summary # Nil /\ summary[1].text = "All systems operational"
  /\ status.last_error # Nil

\* C13: in a status check, health_ok is what the HTTP probe met and ssh_ok
\* is what the session probe met, each whatever the other met, and the
\* check returns Ok whatever the probes met.
C13_IndependentProbes ==
  (op = "monitor" /\ probes.returned # "none") =>
     /\ probes.returned = "Ok"
     /\ probes.http # "none" => (status.health_ok <=> probes.http = "ok")
     /\ status.ssh_ok <=> probes.ssh

C13_Witness ==
  /\ op = "monitor"
  /\ probes = [http |-> "ok", ssh |-> FALSE, returned |-> "Ok"]
  /\ status.health_ok /\ ~status.ssh_ok

\* The trace of a continuous run of n cycles: check, display, and a sleep
\* between two cycles.
CycleTrace(n) ==
  [i \in 1..(3 * n - 1) |->
     IF i % 3 = 1 THEN Local("check_status")
     ELSE IF i % 3 = 2 THEN Local("display_status")
     ELSE Local("sleep")]

\* A continuous run that made exactly 10 cycles with 9 sleeps of the
\* interval between them, the last cycle being the last event, and returned
\* success.
TenCyclesDone ==
  /\ op = "monitor" /\ pc = "done"
  /\ result = Ok("Continuous monitoring completed")
  /\ iteration = 10
  /\ trace = CycleTrace(10)
  /\ waited = 9 * monitor.interval_secs

\* C14: a continuous monitoring run terminates: once started, it comes to
\* return success after exactly 10 probe-and-display cycles with a sleep of
\* the interval between consecutive cycles (9 sleeps, none after the 10th).
C14_ContinuousTerminates ==
  (op = "monitor" /\ pc = "cycle" /\ iteration = 0) ~> TenCyclesDone

C14_Witness ==
  /\ TenCyclesDone
  /\ ~status.ssh_ok
  /\ Len(trace) = 29

\* The messages of task t waiting in the channel.
InQueue(t) == Len(SelectSeq(queue, LAMBDA m : m.task = t))

\* C15 as stated: no message a background task sent is dropped or left
\* unapplied: each is folded into the App, or waits in the channel to be
\* folded.
C15_NoMessageLost ==
  \A t \in TaskIds : Len(sent[t]) = Len(folded[t]) + InQueue(t)

\* A step of the channel while run_app's receiver lives: a send appends one
\* message, or a frame takes the head and folds it.
ChannelStep ==
  \/ /\ queue' # <<>>
     /\ LET m == queue'[Len(queue')] IN
          /\ queue' = Append(queue, m)
          /\ sent' = [sent EXCEPT ![m.task] = Append(@, m)]
     /\ folded' = folded
  \/ /\ queue # <<>>
     /\ queue' = Tail(queue)
     /\ folded' = [folded EXCEPT ![Head(queue).task] = Append(@, Head(queue).n)]
     /\ app' = HandleBackgroundMessage(app, Head(queue))
     /\ sent' = sent

\* C15: while run_app's render loop runs, no message a background task sent
\* is dropped or left unapplied: each is folded into the App or waits in the
\* channel, the channel only grows by a send at its end and only shrinks by
\* a frame folding its head; the messages still queued when the loop ends,
\* and those sent afterwards, are discarded.
C15_NoMessageLostWhileRendering ==
  /\ [](~rx_closed => C15_NoMessageLost)
  /\ [][(~rx_closed' /\ <<queue, sent, folded>>' # <<queue, sent, folded>>)
          => ChannelStep]_vars
  /\ [][rx_closed => (queue' = <<>> /\ folded' = folded)]_vars

C15_Witness ==
  /\ ~rx_closed /\ render = "running"
  /\ Len(sent[1]) >= 3 /\ Len(folded[1]) >= 1 /\ InQueue(1) >= 2
  /\ Len(sent[2]) >= 2 /\ InQueue(2) >= 1

\* C16: the messages of one task are folded in the order the task sent
\* them: the k-th message folded of a task is the k-th it sent, whatever the
\* other tasks send in between.
C16_FoldedInOrder ==
  \A t \in TaskIds : \A k \in DOMAIN folded[t] : folded[t][k] = k

C16_Witness ==
  /\ Len(folded[1]) >= 2 /\ Len(folded[2]) >= 1
  /\ Len(queue) >= 3
  /\ queue[1].task = 2 /\ queue[2].task = 1 /\ queue[3].task = 2

\* The message task t sent last.
LastSent(t) == sent[t][Len(sent[t])]

\* C17: a build or deploy task whose operation failed ends having sent, as
\* its last message on the channel of its progress messages, the completion
\* message that carries the operation's error; while the receiver lives that
\* message is folded or waits to be folded.
C17_FailureIsFinalMessage ==
  \A t \in TaskIds :
    (tasks[t].kind \in {"build", "deploy"} /\ tasks[t].failed
       /\ tasks[t].pc = "finished") =>
      /\ sent[t] # <<>>
      /\ LastSent(t).kind =
           (IF tasks[t].kind = "build" THEN "BuildComplete" ELSE "DeployComplete")
      /\ ~LastSent(t).result.ok
      /\ LastSent(t).result.err.kind =
           (IF tasks[t].kind = "build" THEN "build_failed" ELSE "deploy_failed")
      /\ ~rx_closed => Len(sent[t]) = Len(folded[t]) + InQueue(t)

C17_Witness ==
  /\ tasks[1].kind = "build" /\ tasks[1].failed /\ tasks[1].pc = "finished"
  /\ Len(sent[1]) = 4 /\ sent[1][3].result.ok
  /\ Len(folded[1]) = 4
  /\ app.status_message = Some(<<"Build failed", "build_failed">>)
  /\ tasks[2].kind = "deploy" /\ Len(folded[2]) >= 2

\* The filter string the command line's help gives for a level.
DocumentedFilter(level) ==
  CASE level = 0 -> "off"
    [] level = 1 -> "error"
    [] level = 2 -> "warn"
    [] level = 3 -> "info"
    [] level = 4 -> "debug"
    [] level = 5 -> "trace"

\* C19: the levels 0 to 5 give the filters off, error, warn, info, debug and
\* trace, and Cli::validate accepts exactly the levels 0 to 5.
C19_LogLevelMapping ==
  /\ (log_filter # Nil /\ log_level <= 5) =>
       log_filter = Some(DocumentedFilter(log_level))
  /\ cli_valid # Nil => (cli_valid[1].ok <=> log_level <= 5)

\* The project name a written file should load with.
ExpectedName ==
  IF wrote = "create_default" THEN DefaultName
  ELSE UnwrapOr(supplied.name, DefaultName)

\* C20: the file written by create_default, or by init_configuration for any
\* supplied name and host, is accepted by Config::from_file, and loads with
\* the supplied project name (my-rust-app when none was supplied).
C20_WrittenConfigLoads ==
  loaded # Nil =>
    /\ loaded[1].ok
    /\ loaded[1].value.name = ExpectedName

\* The names of the remote commands of a trace, in the order issued.
RECURSIVE CmdNames(_)
CmdNames(tr) ==
  IF tr = <<>> THEN <<>>
  ELSE (IF Head(tr).kind = "cmd" THEN <<Head(tr).name>> ELSE <<>>)
         \o CmdNames(Tail(tr))

\* What follows the first x in s.
RECURSIVE After(_, _)
After(s, x) ==
  IF s = <<>> THEN <<>>
  ELSE IF Head(s) = x THEN Tail(s) ELSE After(Tail(s), x)

IsPrefix(s, t) == Len(s) <= Len(t) /\ s = SubSeq(t, 1, Len(s))

StartSequence == <<"stop", "enable", "start", "is_active">>

\* The commands start_service issued in a deploy: those after daemon-reload.
ServiceCmds == After(CmdNames(trace), "daemon_reload")

\* C22: start_service issues stop, enable, start, is-active in that order;
\* a failed stop does not prevent enable; a failed enable or start ends the
\* run with an error; and when the state queried is not "active" the run
\* fails with the service-start error.
C22_StartService ==
  (op = "deploy" /\ pc = "done" /\ ServiceCmds # <<>>) =>
    /\ IsPrefix(ServiceCmds, StartSequence)
    /\ Len(ServiceCmds) >= 2
    /\ Len(ServiceCmds) < 4 => ~result.ok
    /\ (Len(ServiceCmds) = 4 /\ service # "active"
          /\ result.err.kind # "channel_error") =>
         (~result.ok /\ result.err.kind = "service_failed_to_start")

\* The commands a rollback issued after restoring the binary.
RollbackServiceCmds == After(CmdNames(trace), "chmod")

\* C23: after restoring the binary a rollback issues the sequence of a
\* deploy's service start (stop, enable, start, is-active) and fails with
\* the same service-start error when the state queried is not "active".
C23_RollbackStartsLikeDeploy ==
  (op = "rollback" /\ pc = "done" /\ RollbackServiceCmds # <<>>) =>
    /\ IsPrefix(RollbackServiceCmds, StartSequence)
    /\ result.ok => RollbackServiceCmds = StartSequence
    /\ (~result.ok /\ query.ok) => result.err.kind = "service_failed_to_start"

UnitCmds == {"cat_unit", "mv_unit", "daemon_reload"}

\* C24: in every state of a rollback, whatever its outcome, the unit file
\* (and the temporary file a deploy writes it through) is what it was when
\* the rollback started, and no unit command or daemon-reload was issued.
C24_RollbackKeepsUnit ==
  op = "rollback" =>
    /\ remote[ServiceFile] = pre[ServiceFile]
    /\ remote[TempServicePath] = pre[TempServicePath]
    /\ \A i \in DOMAIN trace : trace[i].name \notin UnitCmds

C24_Witness ==
  /\ op = "rollback" /\ pc = "done" /\ result.ok
  /\ remote[RemoteBinaryPath] = pre[BackupBinaryPath]
  /\ remote[RemoteBinaryPath] # pre[RemoteBinaryPath]
  /\ CmdNames(trace) = <<"stop", "test_backup", "cp_restore", "chmod",
                         "start", "is_active">>

\* C25: connect_with_retry returns at the first attempt that succeeds:
\* success at attempt k has cost k attempts and 2^(k-1) - 1 seconds of
\* waiting, nothing more; when every attempt failed the error returned is
\* the one of the last attempt.
C25_FirstSuccessLastError ==
  (op = "connect" /\ pc = "done") =>
    /\ result.ok =>
         /\ attempt <= max_retries
         /\ Attempts = attempt
         /\ trace[Len(trace)] = Attempt
         /\ waited = Pow2(attempt - 1) - 1
    /\ (~result.ok /\ max_retries >= 1) =>
         /\ result.err = last_error
         /\ result.err.at = max_retries

C25_Witness ==
  /\ op = "connect" /\ pc = "done" /\ result.ok
  /\ attempt = 3 /\ waited = 3 /\ max_retries = 5
  /\ last_error.at = 2

\* C26: in one connect_ssh, the key is tried exactly when a key path is
\* configured and the key file exists; the password is tried exactly when
\* the key did not authenticate and a password is configured; the attempt
\* succeeds exactly when one of the two authenticated; the password is
\* never tried after the key authenticated.
C26_KeyThenPassword ==
  (auth.outcome # "none" /\ auth.env.tcp /\ auth.env.handshake) =>
    /\ auth.key <=> (config.key_path # None /\ auth.env.keyFile)
    /\ auth.password <=>
         (~(auth.key /\ auth.env.keyAuth) /\ config.password # None)
    /\ (auth.outcome = "ok") <=>
         ((auth.key /\ auth.env.keyAuth) \/ (auth.password /\ auth.env.pwAuth))
    /\ ~(auth.key /\ auth.env.keyAuth /\ auth.password)

C26_Witness ==
  /\ auth.outcome = "ok"
  /\ auth.key /\ ~auth.env.keyAuth
  /\ auth.password /\ auth.env.pwAuth

\* C30: remote_file_exists never returns an error; it returns true exactly
\* when the probe command ran and its trimmed output is "exists", and false
\* for the other output and for every failure to run the command.
C30_ProbeNeverFails ==
  (op = "probe" /\ pc = "done") =>
    /\ result.ok
    /\ result.value \in {"true", "false"}
    /\ (result.value = "true") <=> (query.ok /\ Trim(query.out) = <<"exists">>)
    /\ (result.value = "true") => remote[trace[2].name] # Absent
    /\ ~query.ok => result.value = "false"

C30_Witness ==
  /\ op = "probe" /\ pc = "done"
  /\ ~query.ok /\ query.err.kind = "channel_error"
  /\ remote[trace[2].name] # Absent /\ result.value = "false"

\* C21: quitting never stops a background task: a task that was spawned is
\* never cancelled, it takes its steps until it has returned.
C21_TasksRunToCompletion ==
  \A t \in TaskIds : tasks[t].pc # "cancelled"

\* The number of messages folded so far.
RECURSIVE FoldedUpTo(_, _)
FoldedUpTo(f, t) == IF t = 0 THEN 0 ELSE Len(f[t]) + FoldedUpTo(f, t - 1)

\* C27: a frame folds at most one message: in one step the App takes in at
\* most one message, the head of the queue, and the queue loses at most
\* that one; and a frame does not wait for a message: with an empty queue
\* the render loop can still take its turn.
C27_OneMessagePerFrame ==
  /\ [][/\ FoldedUpTo(folded', MaxTasks) <= FoldedUpTo(folded, MaxTasks) + 1
        /\ folded' # folded =>
             /\ queue # <<>> /\ queue' = Tail(queue)
             /\ app' = HandleBackgroundMessage(app, Head(queue))
        /\ ~rx_closed' => Len(queue') >= Len(queue) - 1]_vars
  /\ []((render = "running" /\ queue = <<>>) => ENABLED Frame)

C27_Witness ==
  /\ render = "running" /\ ~app.should_quit
  /\ Len(queue) >= 3
  /\ FoldedUpTo(folded, MaxTasks) >= 2

\* The build, deploy and monitor parts of the App, and the rest.
Operation(kind) ==
  CASE kind \in {"BuildProgress", "BuildComplete"} -> "build_state"
    [] kind \in {"DeployProgress", "DeployComplete"} -> "deploy_state"
    [] kind = "MonitorUpdate" -> "monitor_state"

\* C28: the App is changed only by the input handler and by the fold of a
\* message in the render loop, never by a step of a background task; and
\* the fold of a message changes only the part of its own operation, and
\* the status message when the message is a completion.
C28_OnlyHandlerAndFoldMutate ==
  /\ [][app' # app =>
          \/ pressed' = pressed + 1 /\ sent' = sent /\ queue' = queue
          \/ /\ queue # <<>> /\ queue' = Tail(queue)
             /\ sent' = sent /\ tasks' = tasks
             /\ app' = HandleBackgroundMessage(app, Head(queue))]_vars
  /\ [][folded' # folded =>
          LET kind == Head(queue).kind IN
          /\ \A f \in {"build_state", "deploy_state", "monitor_state"} :
               f # Operation(kind) => app'[f] = app[f]
          /\ app'.current_tab = app.current_tab
          /\ app'.should_quit = app.should_quit
          /\ kind \notin {"BuildComplete", "DeployComplete"} =>
               app'.status_message = app.status_message]_vars
  /\ [][(sent' # sent \/ tasks' # tasks) => app' = app]_vars

C28_Witness ==
  /\ app.build_state.progress = 10000
  /\ app.deploy_state.current_step # "Ready"
  /\ app.status_message # Nil
  /\ app.current_tab = "Deploy"

\* Where the input task and the render loop are inside a lock section.
InputSection == events = "locked"
RenderSection == render \in {"check", "ui", "handle"}

\* C29: the lock of the App is held only inside the short sections of the
\* input task and of the render loop, never at a point where its holder
\* waits (the key poll, a sleep, a send, try_recv, the write of a frame);
\* it is never taken by a holder; and the holder can always go on to
\* release it, so the input task and the render loop cannot block each
\* other for good.
C29_LockNeverHeldAcrossWait ==
  /\ [](/\ lock = "input" <=> InputSection
        /\ lock = "render" <=> RenderSection
        /\ lock \in {"none", "input", "render"}
        /\ lock = "input" => ENABLED (\E key \in Keys : LockedKeyPress(key))
        /\ lock = "render" => ENABLED (RenderCheck \/ RenderUi \/ RenderHandle))
  /\ [][(lock' # lock /\ lock' # "none") => lock = "none"]_vars
  /\ [][(sent' # sent \/ (tasks' # tasks /\ pressed' = pressed))
          => lock' = lock]_vars

C29_Witness ==
  /\ lock = "render" /\ render = "handle"
  /\ events = "polling" /\ pressed = 2
  /\ queue # <<>>
  /\ \E t \in TaskIds : Live(t)

\* Whether the local step `name` is among the events tr.
Invoked(tr, name) == \E i \in DOMAIN tr : tr[i] = Local(name)

\* C33: in a deploy that is not a dry run and does not skip the build, the
\* prerequisites are validated before the build step: the build is invoked
\* only after validation, with a non-empty local binary already there, and
\* when the binary is missing the deploy ends with "Binary not found",
\* nothing built and no connection attempted.
C33_ValidationBeforeBuild ==
  [][(pc = "idle" /\ op' = "deploy" /\ ~dry_run' /\ ~skip_build') =>
       /\ Invoked(trace', "build") =>
            /\ trace'[1] = Local("validate")
            /\ binary \in LocalBinaries
       /\ binary = "missing" =>
            /\ pc' = "done"
            /\ result' = Err(Error("binary_not_found", "", 0))
            /\ trace' = <<Local("validate")>>
            /\ ~session' /\ attempt' = 1
            /\ binary' = binary /\ remote' = remote]_vars

C33_Witness ==
  /\ op = "deploy" /\ ~dry_run /\ ~skip_build /\ pc = "done"
  /\ binary = "missing"
  /\ result = Err(Error("binary_not_found", "", 0))
  /\ ~Invoked(trace, "build")
  /\ config.key_path # None

\* C37: a rollback that connected to a host without a backup file fails with
\* "No backup found", the remote files (live binary, backup path, unit file)
\* being as they were before it; the commands it issued are the stop of the
\* service and the test of the backup, nothing else.
C37_FailedRollbackChangesNothing ==
  (op = "rollback" /\ pc = "done" /\ session /\ pre[BackupBinaryPath] = Absent) =>
     /\ result = Err(Error("no_backup", "", 0))
     /\ remote = pre
     /\ CmdNames(trace) = <<"stop", "test_backup">>

C37_Witness ==
  /\ op = "rollback" /\ pc = "done" /\ session
  /\ pre[BackupBinaryPath] = Absent
  /\ pre[RemoteBinaryPath] # Absent /\ pre[ServiceFile] # Absent
  /\ result = Err(Error("no_backup", "", 0))
  /\ service = "inactive"

\* C31: once a deploy or a rollback has ended, well or not, the only remote
\* files the program has written are the target binary, its backup and the
\* unit file in the system unit directory: every other remote path, the
\* temporary unit file among them, is absent.
C31_OnlyTargetFilesWritten ==
  (pc \in {"done", "idle"}) =>
     \A p \in RemotePaths \ {RemoteBinaryPath, BackupBinaryPath, ServiceFile} :
        remote[p] = Absent

\* C38: when no health endpoint is configured, a status check leaves
\* health_ok false and response_time None, so the status it produces is not
\* healthy, whatever the session probe and the service query met.
C38_NoEndpointNeverHealthy ==
  (op = "monitor" /\ probes.returned # "none" /\ monitor.health_endpoint = Nil) =>
     /\ ~status.health_ok
     /\ status.response_time = Nil
     /\ ~IsHealthy(status)

C38_Witness ==
  /\ op = "monitor" /\ probes.returned = "Ok"
  /\ monitor.health_endpoint = Nil
  /\ status.ssh_ok
  /\ status.service_status = Some(Active)
  /\ ~IsHealthy(status)

\* The completion messages a build task has sent.
BuildCompletions(t) == {i \in DOMAIN sent[t] : sent[t][i].kind = "BuildComplete"}

\* Whether the App has folded the i-th message of task t.
Folded(t, i) == \E k \in DOMAIN folded[t] : folded[t][k] = i

\* C32: a deploy progress message is folded into the App only once the
\* deploy pipeline of its task has started: while a deploy task has not yet
\* called deploy_project, none of its messages is in the App.
C32_ProgressFromThePipeline ==
  \A t \in TaskIds :
     (tasks[t].kind = "deploy" /\ tasks[t].pc = "progress") => folded[t] = <<>>

\* C34: the status "Build completed successfully" is in the App only when a
\* build task whose build_project returned Ok had its completion folded,
\* and a build task sends at most one BuildComplete message.
C34_SuccessOnlyForBuilt ==
  /\ \A t \in TaskIds : Cardinality(BuildCompletions(t)) <= 1
  /\ app.status_message = Some(<<"Build completed successfully">>) =>
       \E t \in TaskIds :
          /\ tasks[t].kind = "build" /\ ~tasks[t].failed
          /\ \E i \in BuildCompletions(t) : Folded(t, i)

\* C35: at most one deploy task spawned by the interface is in progress.
C35_OneDeployAtATime ==
  Cardinality({t \in TaskIds : tasks[t].kind = "deploy" /\ Live(t)}) <= 1

\* C36: is_building is true exactly while a build task is between its
\* spawn and the fold of its completion message, and is_deploying exactly
\* while a deploy task is.
C36_FlagsFollowTasks ==
  /\ app.build_state.is_building <=>
       \E t \in TaskIds :
          /\ tasks[t].kind = "build"
          /\ \A i \in BuildCompletions(t) : ~Folded(t, i)
  /\ app.deploy_state.is_deploying <=>
       \E t \in TaskIds :
          /\ tasks[t].kind = "deploy"
          /\ \A i \in DOMAIN sent[t] :
                sent[t][i].kind = "DeployComplete" => ~Folded(t, i)

\* C39: in every MonitorUpdate message sent, the metrics agree with the
\* status beside them: the uptime is 100 exactly when the status is
\* healthy, and the error count is 1 exactly when the status has an error.
C39_MetricsAgreeWithStatus ==
  \A t \in TaskIds : \A i \in DOMAIN sent[t] :
     LET m == sent[t][i] IN
     (m.kind = "MonitorUpdate" /\ m.metrics # Nil) =>
        /\ m.metrics[1].uptime_percentage = 100 <=> IsHealthy(m.status)
        /\ m.metrics[1].error_count = 1 <=> m.status.last_error # Nil

\* C40: the status query never indexes past the end of the fields of the
\* `ls -lh` output, whatever their number, and a host that cannot be
\* reached yields the status with service_active false and no other field,
\* not an error.
C40_StatusNeverOutOfBounds ==
  /\ pc # "panicked"
  /\ (op = "status" /\ pc = "done" /\ ~session) => result = Ok(NoDeployment)

====
